---- MODULE Spec2Model ----
(***************************************************************************)
(* Model of the RAG voice chatbot backend (src/backend): the conversation  *)
(* memory, the chunk store, the SQL safety gate and repair, the ingestion   *)
(* of CSV, image and PDF files, the /chat request handler and the handlers *)
(* on the event loop.                                                      *)
(*                                                                         *)
(* Text is modelled by TLA+ strings, character by character: Len, \o,      *)
(* SubSeq, Head and Tail act on strings as on sequences of characters.     *)
(***************************************************************************)
EXTENDS Integers, Sequences, FiniteSets, TLC

(***************************************************************************)
(* Python str and re primitives used by the source                         *)
(***************************************************************************)

UpperLetters == "ABCDEFGHIJKLMNOPQRSTUVWXYZ"

LowerLetters == "abcdefghijklmnopqrstuvwxyz"

Digits == "0123456789"

\* the character of s at position i (1-based)
Ch(s, i) == SubSeq(s, i, i)

CharsOf(s) == { Ch(s, i) : i \in 1..Len(s) }

\* \s of re and the characters str.strip() removes
IsSpace(c) == c \in {" ", "\t", "\n", "\r", "\f"}

\* \w of re: letters, digits and the underscore
WordChars == CharsOf(UpperLetters) \cup CharsOf(LowerLetters) \cup CharsOf(Digits) \cup {"_"}

IsWordChar(c) == c \in WordChars

LowerOf == [ u \in CharsOf(UpperLetters) |->
               Ch(LowerLetters, CHOOSE i \in 1..Len(UpperLetters) : Ch(UpperLetters, i) = u) ]

LowerChar(c) == IF c \in DOMAIN LowerOf THEN LowerOf[c] ELSE c

RECURSIVE ToLower(_)
\* str.lower()
ToLower(s) == IF s = "" THEN "" ELSE LowerChar(Head(s)) \o ToLower(Tail(s))

RECURSIVE LStrip(_)
LStrip(s) == IF s # "" /\ IsSpace(Head(s)) THEN LStrip(Tail(s)) ELSE s

RECURSIVE RStrip(_)
RStrip(s) ==
    IF s # "" /\ IsSpace(Ch(s, Len(s))) THEN RStrip(SubSeq(s, 1, Len(s) - 1)) ELSE s

\* str.strip()
Strip(s) == RStrip(LStrip(s))

RECURSIVE RStripSemi(_)
\* str.rstrip(";")
RStripSemi(s) ==
    IF s # "" /\ Ch(s, Len(s)) = ";" THEN RStripSemi(SubSeq(s, 1, Len(s) - 1)) ELSE s

\* str.startswith(p)
StartsWith(s, p) == Len(s) >= Len(p) /\ SubSeq(s, 1, Len(p)) = p

\* p occurs in s at position i
OccursAt(s, p, i) == i >= 1 /\ i + Len(p) - 1 <= Len(s) /\ SubSeq(s, i, i + Len(p) - 1) = p

\* p occurs in s at position i, letter case ignored (re.I)
OccursAtI(s, p, i) ==
    /\ i >= 1
    /\ i + Len(p) - 1 <= Len(s)
    /\ LowerChar(Ch(s, i)) = LowerChar(Head(p))
    /\ ToLower(SubSeq(s, i, i + Len(p) - 1)) = ToLower(p)

\* the "in" operator of str
Contains(s, p) == \E i \in 1..(Len(s) - Len(p) + 1) : OccursAt(s, p, i)

\* re.search(r"\bw\b", s): w, a run of word characters, occurs in s with a
\* word boundary on both sides
WordBoundaryBefore(s, i) == i = 1 \/ ~IsWordChar(Ch(s, i - 1))

WordBoundaryAfter(s, j) == j = Len(s) \/ ~IsWordChar(Ch(s, j + 1))

SearchWord(s, w) ==
    \E i \in 1..(Len(s) - Len(w) + 1) :
        /\ OccursAt(s, w, i)
        /\ WordBoundaryBefore(s, i)
        /\ WordBoundaryAfter(s, i + Len(w) - 1)

RECURSIVE CollapseSpace(_)
\* re.sub(r"\s+", " ", s)
CollapseSpace(s) ==
    IF s = "" THEN ""
    ELSE IF IsSpace(Head(s))
         THEN " " \o CollapseSpace(LStrip(s))
         ELSE Head(s) \o CollapseSpace(Tail(s))

\* the value a raised exception leaves in place of a result
Raised(msg) == [raised |-> TRUE, value |-> msg]

Returned(v) == [raised |-> FALSE, value |-> v]

(***************************************************************************)
(* database.py: the SQL safety gate                                        *)
(***************************************************************************)

FORBIDDEN_KEYWORDS ==
    {"delete", "drop", "update", "insert", "alter",
     "truncate", "create", "replace", "attach", "detach"}

MAX_SQL_LIMIT == 100

\* enforce_sql_safety that only adds the LIMIT
enforce_sql_safety_unchecked(sql) ==
    IF ~Contains(ToLower(Strip(sql)), " limit ")
    THEN Returned(RStripSemi(sql) \o " LIMIT " \o ToString(MAX_SQL_LIMIT) \o ";")
    ELSE Returned(sql)

\* enforce_sql_safety with the keywords searched in the query as written
\* instead of in its lower-cased form
enforce_sql_safety_case_sensitive(sql) ==
    LET sql_clean == ToLower(Strip(sql))
    IN  IF ~StartsWith(sql_clean, "select")
        THEN Raised("Only SELECT queries are allowed")
        ELSE IF \E word \in FORBIDDEN_KEYWORDS : SearchWord(Strip(sql), word)
        THEN Raised("Forbidden SQL operation")
        ELSE IF ~Contains(sql_clean, " limit ")
        THEN Returned(RStripSemi(sql) \o " LIMIT " \o ToString(MAX_SQL_LIMIT) \o ";")
        ELSE Returned(sql)

enforce_sql_safety(sql) ==
    LET sql_clean == ToLower(Strip(sql))
    IN  IF ~StartsWith(sql_clean, "select")
        THEN Raised("Only SELECT queries are allowed")
        ELSE IF \E word \in FORBIDDEN_KEYWORDS : SearchWord(sql_clean, word)
        THEN Raised("Forbidden SQL operation")
        ELSE IF ~Contains(sql_clean, " limit ")
        THEN Returned(RStripSemi(sql) \o " LIMIT " \o ToString(MAX_SQL_LIMIT) \o ";")
        ELSE Returned(sql)

(***************************************************************************)
(* database.py: repair of malformed generated SQL                          *)
(***************************************************************************)

\* "." of re matches every character but the newline
NoNewline(s) == "\n" \notin CharsOf(s)

Min(S) == CHOOSE x \in S : \A y \in S : x <= y

RECURSIVE WordRunEnd(_, _)
\* [a-zA-Z0-9_]+ is greedy: the last position of the run of word characters
\* that starts at position k
WordRunEnd(s, k) ==
    IF k < Len(s) /\ IsWordChar(Ch(s, k + 1)) THEN WordRunEnd(s, k + 1) ELSE k

\* positions k where " FROM " followed by a table name can end the second
\* group of a match whose clause keyword kw was found at position j
FromPositions(s, j, kw) ==
    { k \in (j + Len(kw) + 1)..Len(s) :
        /\ OccursAtI(s, " FROM ", k)
        /\ k + 6 <= Len(s)
        /\ IsWordChar(Ch(s, k + 6))
        /\ NoNewline(SubSeq(s, j + Len(kw), k - 1)) }

\* positions j where the clause keyword kw can end the first group of a
\* match that starts with "SELECT " at position i
ClausePositions(s, i, kw) ==
    { j \in (i + 8)..Len(s) :
        /\ OccursAtI(s, kw, j)
        /\ NoNewline(SubSeq(s, i + 7, j - 1))
        /\ FromPositions(s, j, kw) # {} }

\* start positions of a match of r"SELECT (.+?)<kw>(.+?) FROM ([a-zA-Z0-9_]+)"
MatchStarts(s, kw) ==
    { i \in 1..Len(s) : OccursAtI(s, "SELECT ", i) /\ ClausePositions(s, i, kw) # {} }

RECURSIVE SubClauseOrder(_, _)
\* re.sub(r"SELECT (.+?)<kw>(.+?) FROM ([a-zA-Z0-9_]+)",
\*        r"SELECT \1 FROM \3<kw>\2", s, flags=re.I):
\* every non-overlapping match, leftmost first, both groups non-greedy
SubClauseOrder(s, kw) ==
    IF MatchStarts(s, kw) = {} THEN s
    ELSE LET i == Min(MatchStarts(s, kw))
             j == Min(ClausePositions(s, i, kw))
             k == Min(FromPositions(s, j, kw))
             e == WordRunEnd(s, k + 6)
             g1 == SubSeq(s, i + 7, j - 1)
             g2 == SubSeq(s, j + Len(kw), k - 1)
             g3 == SubSeq(s, k + 6, e)
         IN  SubSeq(s, 1, i - 1) \o "SELECT " \o g1 \o " FROM " \o g3 \o kw \o g2
                \o SubClauseOrder(SubSeq(s, e + 1, Len(s)), kw)

RECURSIVE SpaceRunEnd(_, _)
\* \s+ is greedy: the last position of the run of whitespace starting at k
SpaceRunEnd(s, k) ==
    IF k < Len(s) /\ IsSpace(Ch(s, k + 1)) THEN SpaceRunEnd(s, k + 1) ELSE k

\* start positions of a match of r"FROM\s+FROM"
DupFromStarts(s) ==
    { i \in 1..Len(s) :
        /\ OccursAtI(s, "FROM", i)
        /\ i + 4 <= Len(s)
        /\ IsSpace(Ch(s, i + 4))
        /\ OccursAtI(s, "FROM", SpaceRunEnd(s, i + 4) + 1) }

RECURSIVE SubDupFrom(_)
\* re.sub(r"FROM\s+FROM", "FROM", s, flags=re.I)
SubDupFrom(s) ==
    IF DupFromStarts(s) = {} THEN s
    ELSE LET i == Min(DupFromStarts(s))
             e == SpaceRunEnd(s, i + 4) + 4
         IN  SubSeq(s, 1, i - 1) \o "FROM" \o SubDupFrom(SubSeq(s, e + 1, Len(s)))

repair_sql(sql) ==
    LET s1 == CollapseSpace(Strip(sql))
        s2 == SubClauseOrder(s1, " WHERE ")
        s3 == SubClauseOrder(s2, " ORDER BY ")
        s4 == SubDupFrom(s3)
    IN  IF ~SearchWord(ToLower(s4), "from")
        THEN Raised("Invalid SQL (missing FROM clause)")
        ELSE Returned(Strip(s4))

(***************************************************************************)
(* database.py and csv_handler.py: the tabular store                       *)
(*                                                                         *)
(* The SQLite file is [exists, tables]: tables is the sequence of user     *)
(* tables in creation order, each [name, columns, rows].                   *)
(***************************************************************************)

NoDatabase == [exists |-> FALSE, tables |-> <<>>]

TableNames(d) == { d.tables[i].name : i \in 1..Len(d.tables) }

TableNamed(d, name) ==
    d.tables[CHOOSE i \in 1..Len(d.tables) : d.tables[i].name = name]

RECURSIVE ReplaceAll(_, _, _)
\* str.replace(old, new)
ReplaceAll(s, old, new) ==
    IF s = "" THEN ""
    ELSE IF StartsWith(s, old)
         THEN new \o ReplaceAll(SubSeq(s, Len(old) + 1, Len(s)), old, new)
         ELSE Head(s) \o ReplaceAll(Tail(s), old, new)

TableNameChars == CharsOf(LowerLetters) \cup CharsOf(Digits) \cup {"_"}

RECURSIVE KeepTableNameChars(_)
\* re.sub(r'[^a-z0-9_]', '', s)
KeepTableNameChars(s) ==
    IF s = "" THEN ""
    ELSE (IF Head(s) \in TableNameChars THEN Head(s) ELSE "") \o KeepTableNameChars(Tail(s))

\* the table name without the removal of the characters outside [a-z0-9_]
SanitizedTableName_unfiltered(filename) ==
    ReplaceAll(ReplaceAll(ToLower(ReplaceAll(filename, ".csv", "")), " ", "_"), "-", "_")

\* the table name process_csv derives from the filename
SanitizedTableName(filename) ==
    KeepTableNameChars(
        ReplaceAll(ReplaceAll(ToLower(ReplaceAll(filename, ".csv", "")), " ", "_"), "-", "_"))

RECURSIVE WithoutTable(_, _)
WithoutTable(tables, name) ==
    IF tables = <<>> THEN <<>>
    ELSE (IF Head(tables).name = name THEN <<>> ELSE <<Head(tables)>>)
            \o WithoutTable(Tail(tables), name)

\* df.to_sql with if_exists="append": the rows are added to an existing table
ToSqlReplace_append(d, table, df) ==
    [exists |-> TRUE,
     tables |-> IF table \in TableNames(d)
                THEN [ i \in 1..Len(d.tables) |->
                         IF d.tables[i].name = table
                         THEN [d.tables[i] EXCEPT !.rows = @ \o df.rows]
                         ELSE d.tables[i] ]
                ELSE Append(d.tables, [name |-> table, columns |-> df.columns, rows |-> df.rows])]

\* df.to_sql(table, conn, if_exists="replace", index=False): the table is
\* dropped if it exists and created anew from the data frame
ToSqlReplace(d, table, df) ==
    [exists |-> TRUE,
     tables |-> Append(WithoutTable(d.tables, table),
                       [name |-> table, columns |-> df.columns, rows |-> df.rows])]

\* process_csv(file_bytes, filename, db_path): file.parsed tells whether
\* pd.read_csv accepts the bytes, file.columns and file.rows are the data
\* frame it gives.  sqlite3.connect creates the database file; pandas
\* refuses an empty table name.
process_csv(file, d) ==
    IF ~file.parsed
    THEN [ret |-> Raised("read_csv failed"), db |-> d]
    ELSE LET table == SanitizedTableName(file.filename)
         IN  IF table = ""
             THEN [ret |-> Raised("Empty table or column name specified"),
                   db |-> [d EXCEPT !.exists = TRUE]]
             ELSE [ret |-> Returned([status |-> "success", table |-> table,
                                     rows_inserted |-> Len(file.rows),
                                     columns |-> file.columns]),
                   db |-> ToSqlReplace(d, table, file)]

RECURSIVE Join(_, _)
\* sep.join(parts)
Join(parts, sep) ==
    IF parts = <<>> THEN ""
    ELSE IF Len(parts) = 1 THEN parts[1]
    ELSE parts[1] \o sep \o Join(Tail(parts), sep)

\* the CREATE TABLE statement sqlite_master keeps for a table
CreateStatement(t) ==
    "CREATE TABLE \"" \o t.name \o "\" ("
        \o Join([ i \in 1..Len(t.columns) |-> "\"" \o t.columns[i] \o "\" TEXT" ], ", ")
        \o ")"

get_db_schema(d) ==
    IF ~d.exists THEN "No database found. Upload a CSV first."
    ELSE IF d.tables = <<>> THEN "Database is empty. Upload CSV data first."
    ELSE Join([ i \in 1..Len(d.tables) |-> CreateStatement(d.tables[i]) \o ";" ], "\n\n")

\* the first word of a statement, lower-cased: the kind of the statement
RECURSIVE FirstWordEnd(_, _)
FirstWordEnd(s, k) ==
    IF k < Len(s) /\ IsWordChar(Ch(s, k + 1)) THEN FirstWordEnd(s, k + 1) ELSE k

FirstWord(s) == ToLower(SubSeq(LStrip(s), 1, FirstWordEnd(LStrip(s), 0)))

\* the word that follows the first occurrence of the keyword kw (given with
\* its surrounding spaces), "" when kw does not occur
WordAfter(s, kw) ==
    LET ps == { i \in 1..Len(s) : OccursAtI(s, kw, i) }
    IN  IF ps = {} THEN ""
        ELSE LET k == Min(ps) + Len(kw) - 1
             IN  SubSeq(s, k + 1, FirstWordEnd(s, k))

\* the text holds more than one statement: something other than whitespace
\* follows a semicolon
HasSecondStatement(s) ==
    \E i \in 1..Len(s) : Ch(s, i) = ";" /\ Strip(SubSeq(s, i + 1, Len(s))) # ""

\* execute_sql(sql, db_path) on the database d: cur.execute runs a single
\* statement on a fresh connection that is closed without commit.
\*   - more than one statement: sqlite3 raises before running anything;
\*   - SELECT: reads only; raises on an unknown table or (o.exec_fails) on
\*     any other SQL error, else gives o.nrows rows of the table;
\*   - DROP TABLE / CREATE TABLE .. AS SELECT: schema statements take effect
\*     at once (no transaction is open);
\*   - DELETE, INSERT, UPDATE, REPLACE: run in the implicit transaction,
\*     which is rolled back when the connection is closed;
\*   - anything else is a syntax error.
execute_sql(sql, d, o) ==
    LET kind == FirstWord(sql)
        from == WordAfter(sql, " from ")
        named == WordAfter(sql, " table ")
    IN  IF HasSecondStatement(sql) \/ o.exec_fails
        THEN [ret |-> Raised("sqlite3 error"), db |-> d]
        ELSE IF kind = "select"
        THEN IF from \notin TableNames(d)
             THEN [ret |-> Raised("no such table"), db |-> d]
             ELSE LET t == TableNamed(d, from)
                      n == IF o.nrows < Len(t.rows) THEN o.nrows ELSE Len(t.rows)
                  IN  [ret |-> Returned([columns |-> t.columns, rows |-> SubSeq(t.rows, 1, n)]),
                       db |-> d]
        ELSE IF kind = "drop" /\ named \in TableNames(d)
        THEN [ret |-> Returned([columns |-> <<>>, rows |-> <<>>]),
              db |-> [d EXCEPT !.tables = WithoutTable(d.tables, named)]]
        ELSE IF kind = "create" /\ named # "" /\ named \notin TableNames(d) /\ from \in TableNames(d)
        THEN [ret |-> Returned([columns |-> <<>>, rows |-> <<>>]),
              db |-> [d EXCEPT !.tables =
                        Append(d.tables, [name |-> named,
                                          columns |-> TableNamed(d, from).columns,
                                          rows |-> TableNamed(d, from).rows])]]
        ELSE IF kind \in {"delete", "insert", "update", "replace"} /\ from \in TableNames(d)
        THEN [ret |-> Returned([columns |-> <<>>, rows |-> <<>>]), db |-> d]
        ELSE [ret |-> Raised("sqlite3 error"), db |-> d]

\* one row of the markdown table
MarkdownRow(cells) == "| " \o Join(cells, " | ") \o " |\n"

format_sql_table(result) ==
    IF result.rows = <<>> THEN "*(no results)*"
    ELSE "\n" \o MarkdownRow(result.columns)
             \o "|" \o Join([ i \in 1..Len(result.columns) |-> "---" ], "|") \o "|\n"
             \o Join([ i \in 1..Len(result.rows) |-> MarkdownRow(result.rows[i]) ], "")

RECURSIVE SubAtLineStart(_, _, _)
\* re.sub(r'^<p>\s*', '', s, flags=re.MULTILINE), applied from position i on
SubAtLineStart(s, p, i) ==
    IF i > Len(s) THEN ""
    ELSE IF (i = 1 \/ Ch(s, i - 1) = "\n") /\ OccursAt(s, p, i)
         THEN SubAtLineStart(s, p, SpaceRunEnd(s, i + Len(p) - 1) + 1)
         ELSE Ch(s, i) \o SubAtLineStart(s, p, i + 1)

\* the markdown code fence: three backquotes, each written "~" here
Fence == "~~~"

EndsWithFence(s) == Len(s) >= 3 /\ SubSeq(s, Len(s) - 2, Len(s)) = Fence

\* re.sub of the fence at "$": $ matches at the end and before a final newline
SubFenceAtEnd(s) ==
    IF EndsWithFence(s) THEN SubSeq(s, 1, Len(s) - 3)
    ELSE IF Len(s) >= 4 /\ SubSeq(s, Len(s) - 3, Len(s)) = Fence \o "\n"
         THEN SubSeq(s, 1, Len(s) - 4) \o "\n"
         ELSE s

\* the markdown code fences removed from a backend's answer
StripFences(content) ==
    Strip(SubFenceAtEnd(SubAtLineStart(SubAtLineStart(Strip(content), Fence \o "sql", 1), Fence, 1)))

\* generate_sql_with_llm asking Groq first and Ollama when Groq raised
generate_sql_with_llm_groq_first(o) ==
    IF ~o.groq_sql.raised
    THEN [called |-> <<"groq">>, ret |-> Returned(StripFences(o.groq_sql.value))]
    ELSE IF ~o.ollama_sql.raised
    THEN [called |-> <<"groq", "ollama">>, ret |-> Returned(StripFences(o.ollama_sql.value))]
    ELSE [called |-> <<"groq", "ollama">>, ret |-> Raised("SQL generation failed")]

\* generate_sql_with_llm: the first backend is tried first, the second only
\* when the first raised; o.ollama_sql and o.groq_sql are what the backends
\* answer (or that they raise).  Gives the backends called, in order, and
\* the SQL or the ValueError.
generate_sql_with_llm(o) ==
    IF ~o.ollama_sql.raised
    THEN [called |-> <<"ollama">>, ret |-> Returned(StripFences(o.ollama_sql.value))]
    ELSE IF ~o.groq_sql.raised
    THEN [called |-> <<"ollama", "groq">>, ret |-> Returned(StripFences(o.groq_sql.value))]
    ELSE [called |-> <<"ollama", "groq">>, ret |-> Raised("SQL generation failed")]

\* a call of the chunk store made by retrieve_context: n_results is the
\* number of neighbours asked for and documents the texts that came back
StoreQuery(op, query, res, n_results, documents) ==
    [op |-> op, arg |-> query, messages |-> <<>>, raised |-> res.raised, ret |-> res.value,
     n_results |-> n_results, documents |-> documents]

\* collection.query(query_texts=[query], n_results=n): the nearest chunks
\* are taken to be the first ones stored
NearestDocuments(col, n) ==
    [ i \in 1..(IF n < Len(col) THEN n ELSE Len(col)) |-> col[i].document ]

\* retrieve_context that asks for n_results neighbours whatever the count
RetrieveContext_uncapped(col, query, n_results, o) ==
    IF o.count_raises
    THEN [calls |-> <<StoreQuery("collection.count", "", Raised("count failed"), 0, <<>>)>>,
          ret |-> ""]
    ELSE IF Len(col) = 0
    THEN [calls |-> <<StoreQuery("collection.count", "", Returned("0"), 0, <<>>)>>, ret |-> ""]
    ELSE LET counted == StoreQuery("collection.count", "", Returned(ToString(Len(col))), 0, <<>>)
         IN  IF o.query_raises
             THEN [calls |-> <<counted, StoreQuery("collection.query", query,
                                                   Raised("query failed"), n_results, <<>>)>>,
                   ret |-> ""]
             ELSE [calls |-> <<counted, StoreQuery("collection.query", query, Returned(""),
                                                   n_results, NearestDocuments(col, n_results))>>,
                   ret |-> Join(NearestDocuments(col, n_results), "\n\n")]

\* retrieve_context(query, collection, n_results) on the collection content
\* col, with the calls it makes on the collection.  o.count_raises and
\* o.query_raises tell whether collection.count and collection.query raise;
\* every exception is caught and answered with ""
RetrieveContext(col, query, n_results, o) ==
    IF o.count_raises
    THEN [calls |-> <<StoreQuery("collection.count", "", Raised("count failed"), 0, <<>>)>>,
          ret |-> ""]
    ELSE IF Len(col) = 0
    THEN [calls |-> <<StoreQuery("collection.count", "", Returned("0"), 0, <<>>)>>, ret |-> ""]
    ELSE LET n == IF n_results < Len(col) THEN n_results ELSE Len(col)
             counted == StoreQuery("collection.count", "", Returned(ToString(Len(col))), 0, <<>>)
         IN  IF o.query_raises
             THEN [calls |-> <<counted, StoreQuery("collection.query", query,
                                                   Raised("query failed"), n, <<>>)>>,
                   ret |-> ""]
             ELSE [calls |-> <<counted, StoreQuery("collection.query", query, Returned(""),
                                                   n, NearestDocuments(col, n))>>,
                   ret |-> Join(NearestDocuments(col, n), "\n\n")]

\* what retrieve_context(query, collection, n_results) returns: "" when the
\* collection is empty or the store raises, else the documents of the
\* min(n_results, count) nearest chunks joined by a blank line
retrieve_context(col, n_results, query_raises) ==
    RetrieveContext(col, "", n_results, [count_raises |-> FALSE, query_raises |-> query_raises]).ret

(***************************************************************************)
(* ocr_utils.py: the OCR heuristic and the image analysis                  *)
(***************************************************************************)

\* the characters str.isalpha() accepts among those of the modelled texts
AlphaChars == CharsOf(UpperLetters) \cup CharsOf(LowerLetters)

IsAlpha(c) == c \in AlphaChars

\* the default thresholds of is_scanned_pdf; min_alpha_ratio = 0.2 is kept
\* as the fraction 1 / MinAlphaRatioInverse
MinTotalChars == 300

MinCharsPerPage == 120

MinAlphaRatioInverse == 5

\* is_scanned_pdf without the strip of its first statement
is_scanned_pdf_unstripped(pdf_text, page_count) ==
    LET text == pdf_text
        total_chars == Len(text)
        alpha_chars == Cardinality({ i \in 1..Len(text) : IsAlpha(Ch(text, i)) })
    IN  IF total_chars = 0 THEN TRUE
        ELSE \/ total_chars < MinTotalChars
             \/ (IF page_count > 0 THEN total_chars < MinCharsPerPage * page_count
                 ELSE total_chars < MinCharsPerPage)
             \/ MinAlphaRatioInverse * alpha_chars < total_chars

\* is_scanned_pdf(pdf_text, page_count) with the default thresholds; a
\* page_count of 0 stands for None as well.  The float comparisons are
\* written on the integers: total_chars / page_count < 120 is
\* total_chars < 120 * page_count, and alpha_chars / total_chars < 0.2 is
\* 5 * alpha_chars < total_chars (the quotient of a ratio of exactly 1/5 is
\* the double 0.2 itself).
is_scanned_pdf(pdf_text, page_count) ==
    LET text == Strip(pdf_text)
        total_chars == Len(text)
        alpha_chars == Cardinality({ i \in 1..Len(text) : IsAlpha(Ch(text, i)) })
    IN  IF total_chars = 0 THEN TRUE
        ELSE \/ total_chars < MinTotalChars
             \/ (IF page_count > 0 THEN total_chars < MinCharsPerPage * page_count
                 ELSE total_chars < MinCharsPerPage)
             \/ MinAlphaRatioInverse * alpha_chars < total_chars

(***************************************************************************)
(* State                                                                   *)
(***************************************************************************)

VARIABLES
    chat_memory,   \* config.chat_memory: the deque of {role, content} entries
    appended,      \* history: every entry ever appended to chat_memory, in order
    collections,   \* the ChromaDB collections: modality -> sequence of chunks
    uuidCount,     \* number of chunk ids drawn from uuid.uuid4() so far
    storeLog,      \* history: the chunk_and_store calls made, with their results
    db,            \* the SQLite file at DB_PATH
    request,       \* the ChatRequest of the last /chat call
    response,      \* what the last /chat call returned
    calls,         \* history: the calls the last /chat call made, in order
    chats,         \* number of /chat calls handled
    csvUploads,    \* number of /upload_csv calls handled
    sqlIn,         \* the query handed to a function of the SQL gate
    sqlOp,         \* the function of the SQL gate that was applied to sqlIn
    sqlOut,        \* what that function returned or raised
    upload,        \* the file of the last /upload_* call, with what the libraries make of it
    uploadOut,     \* what the last /upload_* call returned, or the HTTP 500 it raised
    tasks,         \* the coroutines of the event loop: id -> handler, position, locals
    running        \* the id of the coroutine the event loop thread is executing, or 0

vars == <<chat_memory, appended, collections, uuidCount, storeLog,
          db, request, response, calls, chats, csvUploads, sqlIn, sqlOp, sqlOut,
          upload, uploadOut, tasks, running>>

ingestVars == <<upload, uploadOut>>

loopVars == <<tasks, running>>

sqlVars == <<sqlIn, sqlOp, sqlOut>>

memoryVars == <<chat_memory, appended>>

storeVars == <<collections, uuidCount, storeLog>>

chatVars == <<db, request, response, calls, chats, csvUploads>>

(***************************************************************************)
(* config.py: the conversation memory                                      *)
(***************************************************************************)

\* maxlen of the deque
MemoryMaxLen == 10

\* a deque without maxlen
DequeAppend_unbounded(d, e) == Append(d, e)

\* a deque whose maxlen is odd
DequeAppend_odd_maxlen(d, e) ==
    IF Len(d) >= MemoryMaxLen - 1 THEN Append(Tail(d), e) ELSE Append(d, e)

\* deque.append on a deque with maxlen: once full, the leftmost entry is
\* discarded to make room
DequeAppend(d, e) ==
    IF Len(d) >= MemoryMaxLen THEN Append(Tail(d), e) ELSE Append(d, e)

Entry(role, content) == [role |-> role, content |-> content]

\* the memory after remember_exchange(user_text, assistant_text)
Remembered(mem, user_text, assistant_text) ==
    DequeAppend(DequeAppend(mem, Entry("user", user_text)),
                Entry("assistant", assistant_text))

get_context_window(mem) == mem

\* build_messages_with_context that puts the new message before the context
build_messages_with_context_message_first(mem, user_message, system_prompt) ==
    (IF system_prompt # "" THEN <<Entry("system", system_prompt)>> ELSE <<>>)
        \o <<Entry("user", user_message)>>
        \o get_context_window(mem)

build_messages_with_context(mem, user_message, system_prompt) ==
    (IF system_prompt # "" THEN <<Entry("system", system_prompt)>> ELSE <<>>)
        \o get_context_window(mem)
        \o <<Entry("user", user_message)>>

remember_exchange(user_text, assistant_text) ==
    /\ chat_memory' = Remembered(chat_memory, user_text, assistant_text)
    /\ appended' = appended \o <<Entry("user", user_text), Entry("assistant", assistant_text)>>

(***************************************************************************)
(* embeddings.py: the chunk store                                          *)
(***************************************************************************)

\* the keys of collection_names in initialize_backend
Modalities == {"video", "audio", "pdf", "image"}

EmptyCollections == [m \in Modalities |-> <<>>]

RECURSIVE Windows(_, _, _)
\* windows of at most size characters, consecutive windows sharing overlap
\* characters
Windows(t, size, overlap) ==
    IF Len(t) <= size THEN <<t>>
    ELSE <<SubSeq(t, 1, size)>> \o Windows(SubSeq(t, size - overlap + 1, Len(t)), size, overlap)

\* RecursiveCharacterTextSplitter(chunk_size, chunk_overlap).split_text(text)
\* on a text without whitespace inside: raw character cuts; chunks are
\* stripped and empty chunks dropped, so a blank text gives no chunk
split_text(text, chunk_size, chunk_overlap) ==
    IF Strip(text) = "" THEN <<>> ELSE Windows(Strip(text), chunk_size, chunk_overlap)

\* collection.get matching the source without regard to letter case
GetBySource_ignoring_case(col, source) ==
    { i \in 1..Len(col) : ToLower(col[i].source) = ToLower(source) }

\* collection.get(where={"source": source}): the ids of the chunks whose
\* source metadata equals source exactly
GetBySource(col, source) ==
    { i \in 1..Len(col) : col[i].source = source }

\* chunk_and_store that tags no chunk with its source
chunk_and_store_untagged(text, col, source, chunk_size, chunk_overlap, ids, o) ==
    IF source # "" /\ ~o.get_raises /\ { i \in 1..Len(col) : col[i].source = source } # {}
    THEN [ret |-> Returned(<<0, TRUE>>), col |-> col, ids |-> 0]
    ELSE LET chunks == split_text(text, chunk_size, chunk_overlap)
             added == [ i \in 1..Len(chunks) |->
                          [id |-> ids + i, document |-> chunks[i], source |-> ""] ]
         IN  IF o.add_raises
             THEN [ret |-> Raised("collection.add failed"), col |-> col, ids |-> Len(chunks)]
             ELSE [ret |-> Returned(<<Len(chunks), FALSE>>), col |-> col \o added,
                   ids |-> Len(chunks)]

\* chunk_and_store that takes a failing lookup for a duplicate
chunk_and_store_fail_closed(text, col, source, chunk_size, chunk_overlap, ids, o) ==
    IF source # "" /\ (o.get_raises \/ GetBySource(col, source) # {})
    THEN [ret |-> Returned(<<0, TRUE>>), col |-> col, ids |-> 0]
    ELSE LET chunks == split_text(text, chunk_size, chunk_overlap)
             added == [ i \in 1..Len(chunks) |->
                          [id |-> ids + i, document |-> chunks[i], source |-> source] ]
         IN  IF o.add_raises
             THEN [ret |-> Raised("collection.add failed"), col |-> col, ids |-> Len(chunks)]
             ELSE [ret |-> Returned(<<Len(chunks), FALSE>>), col |-> col \o added,
                   ids |-> Len(chunks)]

\* chunk_and_store(text, collection, source, chunk_size, chunk_overlap) on
\* the collection content col.  o.get_raises and o.add_raises tell whether
\* collection.get and collection.add raise.  Gives what the call returns or
\* raises (ret) and the collection content afterwards (col).  A source of
\* "" stands for both None and the empty string, which the code treats alike.
chunk_and_store(text, col, source, chunk_size, chunk_overlap, ids, o) ==
    IF source # "" /\ ~o.get_raises /\ GetBySource(col, source) # {}
    THEN [ret |-> Returned(<<0, TRUE>>), col |-> col, ids |-> 0]
    ELSE LET chunks == split_text(text, chunk_size, chunk_overlap)
             added == [ i \in 1..Len(chunks) |->
                          [id |-> ids + i, document |-> chunks[i], source |-> source] ]
         IN  IF o.add_raises
             THEN [ret |-> Raised("collection.add failed"), col |-> col, ids |-> Len(chunks)]
             ELSE [ret |-> Returned(<<Len(chunks), FALSE>>), col |-> col \o added,
                   ids |-> Len(chunks)]

StoreOracles == [get_raises : BOOLEAN, add_raises : BOOLEAN]

(***************************************************************************)
(* llm_clients.py and main.py: the /chat handler                           *)
(***************************************************************************)

GROQ_MODEL == "llama-3.1-8b-instant"

NoRequest ==
    [message |-> "", use_sql |-> FALSE, use_video |-> FALSE, use_audio |-> FALSE,
     use_pdf |-> FALSE, use_image |-> FALSE]

\* a response: keys is the set of keys of the returned dict
Response(keys, reply, error, source) ==
    [keys |-> keys, reply |-> reply, error |-> error, source |-> source,
     sql |-> "", row_count |-> 0, rows |-> <<>>]

NoResponse == Response({}, "", "", "")

ReplyFrom(reply, source) == Response({"reply", "source"}, reply, "", source)

ErrorOnly(error) == Response({"error"}, "", error, "")

\* a call made by the handler: raised tells whether it raised; for a call
\* to a chat backend, messages is the message list sent, arg the content of
\* its last message and ret the text that came back
Call(op, arg) == [op |-> op, arg |-> arg, messages |-> <<>>, raised |-> FALSE, ret |-> ""]

\* a call with its result res (Returned or Raised)
CallDone(op, arg, res) == [Call(op, arg) EXCEPT !.raised = res.raised]

LlmCall(op, messages, res) ==
    [op |-> op, arg |-> messages[Len(messages)].content, messages |-> messages,
     raised |-> res.raised, ret |-> res.value]

\* what one /chat call does: its response, the calls it makes, the
\* exchanges it remembers and the database it leaves
Outcome(resp, cs, remembered, d) ==
    [response |-> resp, calls |-> cs, remembered |-> remembered, db |-> d]

\* send_ollama_chat never raises: a failure becomes a reply that carries
\* the failure marker
send_ollama_chat(o) ==
    IF o.ollama_chat.raised
    THEN "Ollama Fallback Error: " \o o.ollama_chat.value
    ELSE o.ollama_chat.value

\* the backend calls of generate_sql_with_llm; messages is the conversation
\* context the handler hands over
GenerateCalls(gen, schema, messages, o) ==
    [ i \in 1..Len(gen.called) |->
        [op |-> "generate_sql_with_llm." \o gen.called[i], arg |-> schema, messages |-> messages,
         raised |-> IF gen.called[i] = "ollama" THEN o.ollama_sql.raised ELSE o.groq_sql.raised,
         ret |-> IF gen.called[i] = "ollama" THEN o.ollama_sql.value ELSE o.groq_sql.value] ]

\* the except clause of the SQL branch missing: the exception leaves the
\* handler and no response is returned
SqlError_unhandled(e, cs, d) == Outcome(NoResponse, cs, <<>>, d)

\* the except clause of the SQL branch (lines 225-232)
SqlError(e, cs, d) ==
    Outcome(Response({"error", "source"}, "", "SQL query failed: " \o e, "SQL Error"), cs, <<>>, d)

FirstRows(rows, n) == SubSeq(rows, 1, IF Len(rows) < n THEN Len(rows) ELSE n)

\* the SQL branch once the statement ran: the table, the reply and the
\* exchange remembered; ex is what execute_sql(safe_sql) gave
SqlExecuted(req, o, cs, safe_sql, ex) ==
    LET rows == ex.ret.value.rows
        table == format_sql_table(ex.ret.value)
        response_text ==
            "**SQL Query:**\n" \o Fence \o "sql\n" \o safe_sql \o "\n" \o Fence \o "\n\n"
                \o "**Results:** (" \o ToString(Len(rows)) \o " rows)\n\n" \o table
        c1 == cs \o <<CallDone("execute_sql", safe_sql, ex.ret)>>
        c2 == c1 \o <<CallDone("format_sql_table", "", [raised |-> o.format_raises])>>
    IN  IF ex.ret.raised THEN SqlError(ex.ret.value, c1, ex.db)
        ELSE IF o.format_raises THEN SqlError("format_sql_table failed", c2, ex.db)
        ELSE Outcome([keys |-> {"reply", "source", "sql", "row_count", "rows"},
                      reply |-> response_text, error |-> "", source |-> "SQL Query",
                      sql |-> safe_sql, row_count |-> Len(rows), rows |-> FirstRows(rows, 10)],
                     c2 \o <<Call("remember_exchange", response_text)>>,
                     <<<<req.message, response_text>>>>, ex.db)

\* the SQL branch from the safety gate on, executing the repaired query
\* instead of the one the gate returned
SqlChecked_executes_repaired(req, d, o, cs, fixed_sql, safe) ==
    IF safe.raised THEN SqlError(safe.value, cs \o <<CallDone("enforce_sql_safety", fixed_sql, safe)>>, d)
    ELSE SqlExecuted(req, o, cs \o <<CallDone("enforce_sql_safety", fixed_sql, safe)>>, fixed_sql,
                     execute_sql(fixed_sql, d, o))

\* the SQL branch from the safety gate on: safe is what
\* enforce_sql_safety(fixed_sql) gave
SqlChecked(req, d, o, cs, fixed_sql, safe) ==
    IF safe.raised THEN SqlError(safe.value, cs \o <<CallDone("enforce_sql_safety", fixed_sql, safe)>>, d)
    ELSE SqlExecuted(req, o, cs \o <<CallDone("enforce_sql_safety", fixed_sql, safe)>>, safe.value,
                     execute_sql(safe.value, d, o))

\* the SQL branch from the repair on: fixed is what repair_sql(raw_sql) gave
SqlRepaired(req, d, o, cs, raw_sql, fixed) ==
    IF fixed.raised THEN SqlError(fixed.value, cs \o <<CallDone("repair_sql", raw_sql, fixed)>>, d)
    ELSE SqlChecked(req, d, o, cs \o <<CallDone("repair_sql", raw_sql, fixed)>>,
                    fixed.value, enforce_sql_safety(fixed.value))

\* the SQL branch from the generation on: gen is what generate_sql_with_llm
\* gave for the schema
SqlGenerated(req, d, o, cs, gen) ==
    IF gen.ret.raised THEN SqlError(gen.ret.value, cs, d)
    ELSE SqlRepaired(req, d, o, cs, gen.ret.value, repair_sql(gen.ret.value))

\* the SQL branch from the schema on, taking only a missing database file
\* for "nothing uploaded yet"
SqlWithSchema_only_missing(req, mem, d, o, cs, schema, gen) ==
    IF Contains(schema, "No database found")
    THEN Outcome(ReplyFrom("No SQL database available. Please upload a CSV file first.",
                           "SQL Context"), cs, <<>>, d)
    ELSE SqlGenerated(req, d, o,
                      cs \o GenerateCalls(gen, schema, build_messages_with_context(mem, req.message, ""), o),
                      gen)

\* the SQL branch from the schema on
SqlWithSchema(req, mem, d, o, cs, schema, gen) ==
    IF Contains(schema, "No database found") \/ Contains(schema, "Database is empty")
    THEN Outcome(ReplyFrom("No SQL database available. Please upload a CSV file first.",
                           "SQL Context"), cs, <<>>, d)
    ELSE SqlGenerated(req, d, o,
                      cs \o GenerateCalls(gen, schema, build_messages_with_context(mem, req.message, ""), o),
                      gen)

\* the SQL branch of chat: schema, generate, repair, safety gate, execute,
\* format; whatever raises on the way is answered as an SQL error.  The
\* schema read opens the database only when the file exists.
SqlMode(req, mem, d, o) ==
    IF d.exists /\ o.schema_raises
    THEN SqlError("unable to open database file",
                  <<CallDone("get_db_schema", "", [raised |-> TRUE])>>, d)
    ELSE SqlWithSchema(req, mem, d, o, <<Call("get_db_schema", "")>>,
                       get_db_schema(d), generate_sql_with_llm(o))

\* the video branch asking both backends whatever the first one did
VideoMode_asks_both(req, mem, cols, d, o) ==
    LET context == retrieve_context(cols["video"], 5, o.query_raises)
        c1 == <<[Call("retrieve_context", "video") EXCEPT !.ret = context]>>
        system_instr == "Answer the question ONLY based on the video transcript provided. If not found, say question is not related to the video."
        user_msg == "Video Transcript Context:\n" \o context \o "\n\nQuestion: " \o req.message
        messages == build_messages_with_context(mem, user_msg, system_instr)
        ollama_reply == send_ollama_chat(o)
    IN  IF context = ""
        THEN Outcome(ReplyFrom("Question is not in this video (no matching transcript context).",
                               "Video Context"), c1, <<>>, d)
        ELSE IF ~o.groq_chat.raised
        THEN Outcome(ReplyFrom("GROQ answer (" \o GROQ_MODEL \o ") [Video Mode]: \n"
                                   \o o.groq_chat.value, "Groq (Video)"),
                     c1 \o <<LlmCall("send_groq_chat", messages, o.groq_chat),
                             LlmCall("send_ollama_chat", messages, Returned(ollama_reply)),
                             Call("remember_exchange", o.groq_chat.value)>>,
                     <<<<req.message, o.groq_chat.value>>>>, d)
        ELSE Outcome(ReplyFrom(ollama_reply, "Ollama (Video Fallback)"),
                     c1 \o <<LlmCall("send_groq_chat", messages, o.groq_chat),
                             LlmCall("send_ollama_chat", messages, Returned(ollama_reply)),
                             Call("remember_exchange", ollama_reply)>>,
                     <<<<req.message, ollama_reply>>>>, d)

\* the video branch of chat: Groq first, Ollama when Groq raised
VideoMode(req, mem, cols, d, o) ==
    LET context == retrieve_context(cols["video"], 5, o.query_raises)
        c1 == <<[Call("retrieve_context", "video") EXCEPT !.ret = context]>>
        system_instr == "Answer the question ONLY based on the video transcript provided. If not found, say question is not related to the video."
        user_msg == "Video Transcript Context:\n" \o context \o "\n\nQuestion: " \o req.message
        messages == build_messages_with_context(mem, user_msg, system_instr)
        ollama_reply == send_ollama_chat(o)
    IN  IF context = ""
        THEN Outcome(ReplyFrom("Question is not in this video (no matching transcript context).",
                               "Video Context"), c1, <<>>, d)
        ELSE IF ~o.groq_chat.raised
        THEN Outcome(ReplyFrom("GROQ answer (" \o GROQ_MODEL \o ") [Video Mode]: \n"
                                   \o o.groq_chat.value, "Groq (Video)"),
                     c1 \o <<LlmCall("send_groq_chat", messages, o.groq_chat),
                             Call("remember_exchange", o.groq_chat.value)>>,
                     <<<<req.message, o.groq_chat.value>>>>, d)
        ELSE Outcome(ReplyFrom(ollama_reply, "Ollama (Video Fallback)"),
                     c1 \o <<LlmCall("send_groq_chat", messages, o.groq_chat),
                             LlmCall("send_ollama_chat", messages, Returned(ollama_reply)),
                             Call("remember_exchange", ollama_reply)>>,
                     <<<<req.message, ollama_reply>>>>, d)

\* the audio, PDF and image branches with the test for an empty context
\* made in the image branch only
DocumentMode_unchecked_context(req, mem, cols, d, o, t) ==
    LET context == retrieve_context(cols[t.modality], 5, o.query_raises)
        c1 == <<[Call("retrieve_context", t.modality) EXCEPT !.ret = context]>>
        user_msg == t.heading \o context \o "\n\nQuestion: " \o req.message
        messages == build_messages_with_context(mem, user_msg, t.system_instr)
        ollama_reply == send_ollama_chat(o)
        c2 == c1 \o <<LlmCall("send_ollama_chat", messages, Returned(ollama_reply))>>
        c3 == c2 \o <<LlmCall("send_groq_chat", messages, o.groq_chat)>>
    IN  IF t.modality = "image" /\ Strip(context) = ""
        THEN Outcome(ReplyFrom(t.not_found, t.label \o " Context"), c1, <<>>, d)
        ELSE IF ~Contains(ollama_reply, "Ollama Fallback Error")
        THEN Outcome(ReplyFrom(ollama_reply, "Ollama (" \o t.label \o ")"),
                     c2 \o <<Call("remember_exchange", ollama_reply)>>,
                     <<<<req.message, ollama_reply>>>>, d)
        ELSE IF ~o.groq_chat.raised
        THEN Outcome(ReplyFrom("GROQ answer (" \o GROQ_MODEL \o ") [" \o t.label \o " Mode]: \n"
                                   \o o.groq_chat.value,
                               "Groq (" \o t.label \o " Fallback)"),
                     c3 \o <<Call("remember_exchange", o.groq_chat.value)>>,
                     <<<<req.message, o.groq_chat.value>>>>, d)
        ELSE Outcome(ErrorOnly(t.label \o " query failed: " \o o.groq_chat.value), c3, <<>>, d)

\* the audio, PDF and image branches testing the Ollama reply for the
\* marker of the last branch
DocumentMode_short_marker(req, mem, cols, d, o, t) ==
    LET context == retrieve_context(cols[t.modality], 5, o.query_raises)
        c1 == <<[Call("retrieve_context", t.modality) EXCEPT !.ret = context]>>
        user_msg == t.heading \o context \o "\n\nQuestion: " \o req.message
        messages == build_messages_with_context(mem, user_msg, t.system_instr)
        ollama_reply == send_ollama_chat(o)
        c2 == c1 \o <<LlmCall("send_ollama_chat", messages, Returned(ollama_reply))>>
        c3 == c2 \o <<LlmCall("send_groq_chat", messages, o.groq_chat)>>
    IN  IF context = "" \/ (t.modality = "image" /\ Strip(context) = "")
        THEN Outcome(ReplyFrom(t.not_found, t.label \o " Context"), c1, <<>>, d)
        ELSE IF ~Contains(ollama_reply, "Fallback Error")
        THEN Outcome(ReplyFrom(ollama_reply, "Ollama (" \o t.label \o ")"),
                     c2 \o <<Call("remember_exchange", ollama_reply)>>,
                     <<<<req.message, ollama_reply>>>>, d)
        ELSE IF ~o.groq_chat.raised
        THEN Outcome(ReplyFrom("GROQ answer (" \o GROQ_MODEL \o ") [" \o t.label \o " Mode]: \n"
                                   \o o.groq_chat.value,
                               "Groq (" \o t.label \o " Fallback)"),
                     c3 \o <<Call("remember_exchange", o.groq_chat.value)>>,
                     <<<<req.message, o.groq_chat.value>>>>, d)
        ELSE Outcome(ErrorOnly(t.label \o " query failed: " \o o.groq_chat.value), c3, <<>>, d)

\* a document branch without its except clause: a failure of Groq escapes
DocumentMode_uncaught(req, mem, cols, d, o, t) ==
    LET context == retrieve_context(cols[t.modality], 5, o.query_raises)
        c1 == <<[Call("retrieve_context", t.modality) EXCEPT !.ret = context]>>
        user_msg == t.heading \o context \o "\n\nQuestion: " \o req.message
        messages == build_messages_with_context(mem, user_msg, t.system_instr)
        ollama_reply == send_ollama_chat(o)
        c2 == c1 \o <<LlmCall("send_ollama_chat", messages, Returned(ollama_reply))>>
        c3 == c2 \o <<LlmCall("send_groq_chat", messages, o.groq_chat)>>
    IN  IF context = "" \/ (t.modality = "image" /\ Strip(context) = "")
        THEN Outcome(ReplyFrom(t.not_found, t.label \o " Context"), c1, <<>>, d)
        ELSE IF ~Contains(ollama_reply, "Ollama Fallback Error")
        THEN Outcome(ReplyFrom(ollama_reply, "Ollama (" \o t.label \o ")"),
                     c2 \o <<Call("remember_exchange", ollama_reply)>>,
                     <<<<req.message, ollama_reply>>>>, d)
        ELSE IF ~o.groq_chat.raised
        THEN Outcome(ReplyFrom("GROQ answer (" \o GROQ_MODEL \o ") [" \o t.label \o " Mode]: \n"
                                   \o o.groq_chat.value,
                               "Groq (" \o t.label \o " Fallback)"),
                     c3 \o <<Call("remember_exchange", o.groq_chat.value)>>,
                     <<<<req.message, o.groq_chat.value>>>>, d)
        ELSE Outcome(NoResponse, c3, <<>>, d)

\* the audio, PDF and image branches of chat: Ollama first, Groq when the
\* Ollama reply carries the failure marker.  t names the branch.
DocumentMode(req, mem, cols, d, o, t) ==
    LET context == retrieve_context(cols[t.modality], 5, o.query_raises)
        c1 == <<[Call("retrieve_context", t.modality) EXCEPT !.ret = context]>>
        user_msg == t.heading \o context \o "\n\nQuestion: " \o req.message
        messages == build_messages_with_context(mem, user_msg, t.system_instr)
        ollama_reply == send_ollama_chat(o)
        c2 == c1 \o <<LlmCall("send_ollama_chat", messages, Returned(ollama_reply))>>
        c3 == c2 \o <<LlmCall("send_groq_chat", messages, o.groq_chat)>>
    IN  IF context = "" \/ (t.modality = "image" /\ Strip(context) = "")
        THEN Outcome(ReplyFrom(t.not_found, t.label \o " Context"), c1, <<>>, d)
        ELSE IF ~Contains(ollama_reply, "Ollama Fallback Error")
        THEN Outcome(ReplyFrom(ollama_reply, "Ollama (" \o t.label \o ")"),
                     c2 \o <<Call("remember_exchange", ollama_reply)>>,
                     <<<<req.message, ollama_reply>>>>, d)
        ELSE IF ~o.groq_chat.raised
        THEN Outcome(ReplyFrom("GROQ answer (" \o GROQ_MODEL \o ") [" \o t.label \o " Mode]: \n"
                                   \o o.groq_chat.value,
                               "Groq (" \o t.label \o " Fallback)"),
                     c3 \o <<Call("remember_exchange", o.groq_chat.value)>>,
                     <<<<req.message, o.groq_chat.value>>>>, d)
        ELSE Outcome(ErrorOnly(t.label \o " query failed: " \o o.groq_chat.value), c3, <<>>, d)

AudioBranch ==
    [modality |-> "audio", label |-> "Audio", heading |-> "Audio Transcript Context:\n",
     system_instr |-> "Answer the question ONLY based on the audio transcript provided. If not found, say question is not related to the audio.",
     not_found |-> "Question is not in this audio (no matching transcript context)."]

PdfBranch ==
    [modality |-> "pdf", label |-> "PDF", heading |-> "PDF Context:\n",
     system_instr |-> "Answer the question ONLY based on the PDF document provided. If not found, say question is not related to the PDF.",
     not_found |-> "Question is not in this PDF (no matching document context)."]

ImageBranch ==
    [modality |-> "image", label |-> "Image", heading |-> "Image Context:\n",
     system_instr |-> "Answer the question based on the image description and extracted text provided below. Be helpful and informative.",
     not_found |-> "No image has been uploaded yet, or the question cannot be matched with the uploaded image content. Please upload an image first."]

\* the last branch testing the Ollama reply for the marker of the document
\* branches
NormalMode_long_marker(req, mem, d, o) ==
    LET messages == build_messages_with_context(mem, req.message,
                        "Use the following recent conversation for context and coherence.")
        ollama_reply == send_ollama_chat(o)
        c1 == <<LlmCall("send_ollama_chat", messages, Returned(ollama_reply))>>
        c2 == c1 \o <<LlmCall("send_groq_chat", messages, o.groq_chat)>>
        formatted_reply == "GROQ answer (" \o GROQ_MODEL \o "): " \o o.groq_chat.value
    IN  IF ~Contains(ollama_reply, "Ollama Fallback Error")
        THEN Outcome(ReplyFrom(ollama_reply, "Ollama"),
                     c1 \o <<Call("remember_exchange", ollama_reply)>>,
                     <<<<req.message, ollama_reply>>>>, d)
        ELSE IF ~o.groq_chat.raised
        THEN Outcome(ReplyFrom(formatted_reply, "Groq (Fallback)"),
                     c2 \o <<Call("remember_exchange", formatted_reply)>>,
                     <<<<req.message, formatted_reply>>>>, d)
        ELSE Outcome(ErrorOnly("Both AI services failed. Ollama: " \o ollama_reply
                                   \o " | Groq: " \o o.groq_chat.value), c2, <<>>, d)

\* the last branch not remembering the exchange the fallback answered
NormalMode_forgets_fallback(req, mem, d, o) ==
    LET messages == build_messages_with_context(mem, req.message,
                        "Use the following recent conversation for context and coherence.")
        ollama_reply == send_ollama_chat(o)
        c1 == <<LlmCall("send_ollama_chat", messages, Returned(ollama_reply))>>
        c2 == c1 \o <<LlmCall("send_groq_chat", messages, o.groq_chat)>>
        formatted_reply == "GROQ answer (" \o GROQ_MODEL \o "): " \o o.groq_chat.value
    IN  IF ~Contains(ollama_reply, "Fallback Error")
        THEN Outcome(ReplyFrom(ollama_reply, "Ollama"),
                     c1 \o <<Call("remember_exchange", ollama_reply)>>,
                     <<<<req.message, ollama_reply>>>>, d)
        ELSE IF ~o.groq_chat.raised
        THEN Outcome(ReplyFrom(formatted_reply, "Groq (Fallback)"),
                     c2, <<>>, d)
        ELSE Outcome(ErrorOnly("Both AI services failed. Ollama: " \o ollama_reply
                                   \o " | Groq: " \o o.groq_chat.value), c2, <<>>, d)

\* the last branch of chat: no retrieval, Ollama first, Groq when the
\* Ollama reply carries "Fallback Error"
NormalMode(req, mem, d, o) ==
    LET messages == build_messages_with_context(mem, req.message,
                        "Use the following recent conversation for context and coherence.")
        ollama_reply == send_ollama_chat(o)
        c1 == <<LlmCall("send_ollama_chat", messages, Returned(ollama_reply))>>
        c2 == c1 \o <<LlmCall("send_groq_chat", messages, o.groq_chat)>>
        formatted_reply == "GROQ answer (" \o GROQ_MODEL \o "): " \o o.groq_chat.value
    IN  IF ~Contains(ollama_reply, "Fallback Error")
        THEN Outcome(ReplyFrom(ollama_reply, "Ollama"),
                     c1 \o <<Call("remember_exchange", ollama_reply)>>,
                     <<<<req.message, ollama_reply>>>>, d)
        ELSE IF ~o.groq_chat.raised
        THEN Outcome(ReplyFrom(formatted_reply, "Groq (Fallback)"),
                     c2 \o <<Call("remember_exchange", formatted_reply)>>,
                     <<<<req.message, formatted_reply>>>>, d)
        ELSE Outcome(ErrorOnly("Both AI services failed. Ollama: " \o ollama_reply
                                   \o " | Groq: " \o o.groq_chat.value), c2, <<>>, d)

\* chat with the video flag tested before the SQL flag
ChatOutcome_video_first(req, mem, cols, d, o) ==
    IF Strip(req.message) = "" THEN Outcome(ErrorOnly("Message cannot be empty"), <<>>, <<>>, d)
    ELSE IF req.use_video THEN VideoMode(req, mem, cols, d, o)
    ELSE IF req.use_sql THEN SqlMode(req, mem, d, o)
    ELSE IF req.use_audio THEN DocumentMode(req, mem, cols, d, o, AudioBranch)
    ELSE IF req.use_pdf THEN DocumentMode(req, mem, cols, d, o, PdfBranch)
    ELSE IF req.use_image THEN DocumentMode(req, mem, cols, d, o, ImageBranch)
    ELSE NormalMode(req, mem, d, o)

\* chat testing the message for emptiness without stripping it
ChatOutcome_unstripped(req, mem, cols, d, o) ==
    IF req.message = "" THEN Outcome(ErrorOnly("Message cannot be empty"), <<>>, <<>>, d)
    ELSE IF req.use_sql THEN SqlMode(req, mem, d, o)
    ELSE IF req.use_video THEN VideoMode(req, mem, cols, d, o)
    ELSE IF req.use_audio THEN DocumentMode(req, mem, cols, d, o, AudioBranch)
    ELSE IF req.use_pdf THEN DocumentMode(req, mem, cols, d, o, PdfBranch)
    ELSE IF req.use_image THEN DocumentMode(req, mem, cols, d, o, ImageBranch)
    ELSE NormalMode(req, mem, d, o)

\* chat(request): the branches in the order the handler tests the flags
ChatOutcome(req, mem, cols, d, o) ==
    IF Strip(req.message) = "" THEN Outcome(ErrorOnly("Message cannot be empty"), <<>>, <<>>, d)
    ELSE IF req.use_sql THEN SqlMode(req, mem, d, o)
    ELSE IF req.use_video THEN VideoMode(req, mem, cols, d, o)
    ELSE IF req.use_audio THEN DocumentMode(req, mem, cols, d, o, AudioBranch)
    ELSE IF req.use_pdf THEN DocumentMode(req, mem, cols, d, o, PdfBranch)
    ELSE IF req.use_image THEN DocumentMode(req, mem, cols, d, o, ImageBranch)
    ELSE NormalMode(req, mem, d, o)

\* the /chat endpoint
chat(req, o) ==
    \E out \in {ChatOutcome(req, chat_memory, collections, db, o)} :
        /\ request' = req
        /\ response' = out.response
        /\ calls' = out.calls
        /\ db' = out.db
        /\ IF out.remembered = <<>>
           THEN UNCHANGED memoryVars
           ELSE remember_exchange(out.remembered[1][1], out.remembered[1][2])
        /\ chats' = chats + 1
        /\ UNCHANGED <<csvUploads, storeVars, sqlVars, ingestVars, loopVars>>

\* the /upload_csv endpoint
upload_csv(file) ==
    \E out \in {process_csv(file, db)} :
        /\ db' = out.db
        /\ upload' = [kind |-> "csv"] @@ file
        /\ uploadOut' = [of |-> "upload_csv", raised |-> out.ret.raised, value |-> out.ret.value]
        /\ csvUploads' = csvUploads + 1
        /\ UNCHANGED <<request, response, calls, chats, memoryVars, storeVars, sqlVars, loopVars>>

(***************************************************************************)
(* ocr_utils.py, image_handler.py, pdf_handler.py: the ingestion of images *)
(* and PDF files                                                           *)
(***************************************************************************)

\* retries of analyze_image_with_retry
GeminiRetries == 3

\* "Image uploaded: <format> format, size: <w>x<h> pixels. Note: " of the
\* fallback descriptions
ImageInfo(image) ==
    "Image uploaded: " \o image.format \o " format, size: " \o ToString(image.size[1]) \o "x"
        \o ToString(image.size[2]) \o " pixels. Note: "

NotConfiguredDescription(image) ==
    ImageInfo(image) \o "Google Gemini Vision is not configured. To enable AI-powered image analysis, add a valid GOOGLE_API_KEY to your .env file."

\* str(e)[:100]
First100(msg) == SubSeq(msg, 1, IF Len(msg) < 100 THEN Len(msg) ELSE 100)

ErrorDescription(image, msg) ==
    ImageInfo(image) \o "Gemini Vision API error - " \o First100(msg)
        \o ". Image stored but AI analysis unavailable."

ExhaustedDescription(image) ==
    ImageInfo(image) \o "Gemini API unavailable after " \o ToString(GeminiRetries) \o " attempts."

\* the call of gemini_model.generate_content with its outcome
GenerateContentCall(r) ==
    [Call("generate_content", "") EXCEPT !.raised = r.raised, !.ret = r.value]

\* "503" in str(e) or "429" in str(e)
IsRateLimited(msg) == Contains(msg, "503") \/ Contains(msg, "429")

\* "404" in str(e) or "not found" in str(e).lower()
IsNotFound(msg) == Contains(msg, "404") \/ Contains(ToLower(msg), "not found")

\* the calls after a rate-limited attempt, without the sleep
AfterRateLimit_no_backoff(cs, r) == Append(cs, GenerateContentCall(r))

\* the calls after a rate-limited attempt: the attempt, then time.sleep(2)
AfterRateLimit(cs, r) == cs \o <<GenerateContentCall(r), Call("time.sleep", "2")>>

RECURSIVE AnalyzeFrom(_, _, _, _)
\* the loop of analyze_image_with_retry from the 0-based attempt on;
\* outcomes[k] is what the k-th generate_content call returns (the text of
\* the response, "" for none) or raises (str(e)); cs are the calls made so far
AnalyzeFrom(image, outcomes, attempt, cs) ==
    IF attempt >= GeminiRetries
    THEN [text |-> ExhaustedDescription(image), calls |-> cs]
    ELSE IF ~outcomes[attempt + 1].raised
    THEN [text |-> outcomes[attempt + 1].value,
          calls |-> Append(cs, GenerateContentCall(outcomes[attempt + 1]))]
    ELSE IF IsRateLimited(outcomes[attempt + 1].value)
    THEN AnalyzeFrom(image, outcomes, attempt + 1, AfterRateLimit(cs, outcomes[attempt + 1]))
    ELSE IF IsNotFound(outcomes[attempt + 1].value) \/ attempt = GeminiRetries - 1
    THEN [text |-> ErrorDescription(image, outcomes[attempt + 1].value),
          calls |-> Append(cs, GenerateContentCall(outcomes[attempt + 1]))]
    ELSE AnalyzeFrom(image, outcomes, attempt + 1,
                     Append(cs, GenerateContentCall(outcomes[attempt + 1])))

\* analyze_image_with_retry(image, gemini_model): the text it returns and
\* the calls it makes; gemini_model tells whether the model is configured
analyze_image_with_retry(image, gemini_model, outcomes) ==
    IF ~gemini_model
    THEN [text |-> NotConfiguredDescription(image), calls |-> <<>>]
    ELSE AnalyzeFrom(image, outcomes, 0, <<>>)

\* what an upload handler gives: the dict it returns or the exception it
\* raises (ret), the calls it made, the collection afterwards and the number
\* of chunk ids drawn
Ingested(ret, cs, col, ids) == [ret |-> ret, calls |-> cs, col |-> col, ids |-> ids]

\* the last statements of process_image and process_pdf: chunk_and_store
\* with chunk_size=1000 and chunk_overlap=200, then the dict.  The message
\* of the dict is rendered from its chunks and ocr_used fields; keys is the
\* set of keys of the dict: the dict of a duplicate has no "ocr_used", the
\* dict of process_image never has one (flagged tells process_pdf's).
StoreExtracted(text, col, filename, ids, o, cs, flagged, ocr_used) ==
    LET r == chunk_and_store(text, col, filename, 1000, 200, ids, o)
        c == Append(cs, [Call("chunk_and_store", text) EXCEPT !.raised = r.ret.raised])
        carried == flagged /\ ~r.ret.value[2]
    IN  IF r.ret.raised THEN Ingested(r.ret, c, r.col, r.ids)
        ELSE Ingested(Returned([status |-> "success", chunks |-> r.ret.value[1],
                                duplicate |-> r.ret.value[2],
                                ocr_used |-> carried /\ ocr_used,
                                keys |-> {"status", "message", "duplicate"}
                                            \cup (IF carried THEN {"ocr_used"} ELSE {})]),
                      c, r.col, r.ids)

\* process_image(file_bytes, filename, image_collection, gemini_model);
\* file.openable tells whether PIL opens the bytes
process_image(file, col, ids, o) ==
    IF ~file.openable
    THEN Ingested(Raised("cannot identify image file"), <<Call("Image.open", "")>>, col, 0)
    ELSE LET a == analyze_image_with_retry(file.image, file.gemini_model, file.outcomes)
         IN  IF Strip(a.text) = ""
             THEN Ingested(Raised("No text extracted from image"),
                           <<Call("Image.open", "")>> \o a.calls, col, 0)
             ELSE StoreExtracted(a.text, col, file.filename, ids, o,
                                 <<Call("Image.open", "")>> \o a.calls, FALSE, FALSE)

\* MAX_PDF_SIZE_MB of main.py when the environment does not set it
MAX_PDF_SIZE_MB == 30

\* 1024 * 1024
BytesPerMB == 1048576

\* extract_text_with_ocr(pdf_path, groq_vision_client): file.ocr is the
\* page texts the vision backend answers, or that rendering or a call
\* raises; every page is headed "--- Page n ---"
extract_text_with_ocr(file) ==
    IF file.ocr.raised THEN ""
    ELSE Join([ n \in 1..Len(file.ocr.value) |->
                  "--- Page " \o ToString(n) \o " ---\n" \o Strip(file.ocr.value[n]) ],
              "\n\n")

\* process_pdf taking the OCR text whenever the OCR gave one
PdfExtracted_ocr_first(file, col, ids, o, cs, pdf_text, needs_ocr) ==
    LET ocr_text == extract_text_with_ocr(file)
        use_ocr == needs_ocr /\ file.groq_vision_client
        c == IF use_ocr
             THEN Append(cs, [Call("extract_text_with_ocr", "") EXCEPT !.ret = ocr_text])
             ELSE cs
        text == IF use_ocr /\ ocr_text # "" THEN ocr_text ELSE pdf_text
    IN  IF Strip(text) = ""
        THEN Ingested(Raised("No text extracted from PDF. Please ensure the file is readable."),
                      Append(c, Call("os.remove", "")), col, 0)
        ELSE LET r == StoreExtracted(text, col, file.filename, ids, o, c, TRUE, use_ocr)
             IN  [r EXCEPT !.calls = Append(r.calls, Call("os.remove", ""))]

\* process_pdf from the choice of the text on: the OCR text replaces the
\* extracted text when it is longer, an empty text is refused
PdfExtracted(file, col, ids, o, cs, pdf_text, needs_ocr) ==
    LET ocr_text == extract_text_with_ocr(file)
        use_ocr == needs_ocr /\ file.groq_vision_client
        c == IF use_ocr
             THEN Append(cs, [Call("extract_text_with_ocr", "") EXCEPT !.ret = ocr_text])
             ELSE cs
        text == IF use_ocr /\ ocr_text # "" /\ Len(Strip(ocr_text)) > Len(Strip(pdf_text))
                THEN ocr_text ELSE pdf_text
    IN  IF Strip(text) = ""
        THEN Ingested(Raised("No text extracted from PDF. Please ensure the file is readable."),
                      Append(c, Call("os.remove", "")), col, 0)
        ELSE LET r == StoreExtracted(text, col, file.filename, ids, o, c, TRUE, use_ocr)
             IN  [r EXCEPT !.calls = Append(r.calls, Call("os.remove", ""))]

\* process_pdf without the size limit
process_pdf_unlimited(file, col, ids, o, max_pdf_size_mb) ==
    IF ~file.loads
    THEN Ingested(Raised("PyPDFLoader failed"),
                  <<Call("tempfile.write", ""), CallDone("PyPDFLoader.load", "", Raised("")),
                    Call("os.remove", "")>>, col, 0)
    ELSE PdfExtracted(file, col, ids, o,
                      <<Call("tempfile.write", ""), Call("PyPDFLoader.load", ""),
                        [Call("is_scanned_pdf", "") EXCEPT
                            !.ret = IF is_scanned_pdf(Join(file.pages, "\n\n"), Len(file.pages))
                                    THEN "True" ELSE "False"]>>,
                      Join(file.pages, "\n\n"),
                      is_scanned_pdf(Join(file.pages, "\n\n"), Len(file.pages)))

\* process_pdf(file_bytes, filename, pdf_collection, groq_vision_client,
\* max_pdf_size_mb): file.size is len(file_bytes), file.loads tells whether
\* PyPDFLoader reads the file and file.pages are the page contents it gives
process_pdf(file, col, ids, o, max_pdf_size_mb) ==
    IF file.size > max_pdf_size_mb * BytesPerMB
    THEN Ingested(Raised("PDF too large (> " \o ToString(max_pdf_size_mb) \o " MB)"), <<>>, col, 0)
    ELSE IF ~file.loads
    THEN Ingested(Raised("PyPDFLoader failed"),
                  <<Call("tempfile.write", ""), CallDone("PyPDFLoader.load", "", Raised("")),
                    Call("os.remove", "")>>, col, 0)
    ELSE PdfExtracted(file, col, ids, o,
                      <<Call("tempfile.write", ""), Call("PyPDFLoader.load", ""),
                        [Call("is_scanned_pdf", "") EXCEPT
                            !.ret = IF is_scanned_pdf(Join(file.pages, "\n\n"), Len(file.pages))
                                    THEN "True" ELSE "False"]>>,
                      Join(file.pages, "\n\n"),
                      is_scanned_pdf(Join(file.pages, "\n\n"), Len(file.pages)))

\* an upload endpoint: the handler's dict is returned, an exception becomes
\* the HTTP 500 response with str(e) as detail
Uploaded(file, m, out) ==
    /\ upload' = file
    /\ uploadOut' = [of |-> "upload_" \o m, raised |-> out.ret.raised, value |-> out.ret.value]
    /\ calls' = out.calls
    /\ collections' = [collections EXCEPT ![m] = out.col]
    /\ uuidCount' = uuidCount + out.ids
    /\ UNCHANGED <<storeLog, memoryVars, db, request, response, chats, csvUploads,
                   sqlVars, loopVars>>

\* the /upload_image endpoint
upload_image(file, o) ==
    \E out \in {process_image(file, collections["image"], uuidCount, o)} :
        Uploaded(file, "image", out)

\* process_video(file_bytes, filename, groq_client, video_collection):
\* file.transcript is the text the transcription returns, or that it raises;
\* chunk_and_store is called with its default chunk_size=1000 and
\* chunk_overlap=200 and the dict has the keys of process_image's
process_video(file, col, ids, o) ==
    IF file.transcript.raised
    THEN Ingested(file.transcript,
                  <<CallDone("audio.transcriptions.create", "", file.transcript)>>, col, 0)
    ELSE StoreExtracted(file.transcript.value, col, file.filename, ids, o,
                        <<Call("audio.transcriptions.create", "")>>, FALSE, FALSE)

\* process_audio(file_bytes, filename, groq_client, audio_collection): the
\* statements of process_video on the audio collection
process_audio(file, col, ids, o) ==
    IF file.transcript.raised
    THEN Ingested(file.transcript,
                  <<CallDone("audio.transcriptions.create", "", file.transcript)>>, col, 0)
    ELSE StoreExtracted(file.transcript.value, col, file.filename, ids, o,
                        <<Call("audio.transcriptions.create", "")>>, FALSE, FALSE)

\* the /upload_video endpoint
upload_video(file, o) ==
    \E out \in {process_video(file, collections["video"], uuidCount, o)} :
        Uploaded(file, "video", out)

\* the /upload_audio endpoint
upload_audio(file, o) ==
    \E out \in {process_audio(file, collections["audio"], uuidCount, o)} :
        Uploaded(file, "audio", out)

\* an /upload_pdf endpoint that stores into the image collection
upload_pdf_into_image(file, o) ==
    \E out \in {process_pdf(file, collections["image"], uuidCount, o, MAX_PDF_SIZE_MB)} :
        Uploaded(file, "image", out)

\* the /upload_pdf endpoint
upload_pdf(file, o) ==
    \E out \in {process_pdf(file, collections["pdf"], uuidCount, o, MAX_PDF_SIZE_MB)} :
        Uploaded(file, "pdf", out)

(***************************************************************************)
(* Specification of the conversation memory alone: any sequence of         *)
(* remember_exchange calls                                                 *)
(***************************************************************************)

MaxExchanges == 6

UserTexts == {"u1", "u2"}

AssistantTexts == {"a1", "a2"}

InitIdleSql == sqlIn = "" /\ sqlOp = "none" /\ sqlOut = Returned("")

InitEmptyMemory == chat_memory = <<>> /\ appended = <<>>

InitEmptyStore == collections = EmptyCollections /\ uuidCount = 0 /\ storeLog = <<>>

NoUpload == [kind |-> "none", filename |-> ""]

InitIdleIngest == upload = NoUpload /\ uploadOut = Returned("")

InitIdleLoop == tasks = <<>> /\ running = 0

InitIdleChat ==
    /\ request = NoRequest
    /\ response = NoResponse
    /\ calls = <<>>
    /\ chats = 0
    /\ csvUploads = 0
    /\ InitIdleIngest
    /\ InitIdleLoop

InitMemory ==
    /\ InitEmptyMemory
    /\ InitEmptyStore
    /\ db = NoDatabase
    /\ InitIdleChat
    /\ InitIdleSql

Remember ==
    /\ Len(appended) < 2 * MaxExchanges
    /\ \E u \in UserTexts, a \in AssistantTexts : remember_exchange(u, a)
    /\ UNCHANGED <<sqlVars, storeVars, chatVars, ingestVars, loopVars>>

NextMemory == Remember

SpecMemory == InitMemory /\ [][NextMemory]_vars

\* C1: after any sequence of remember calls the memory holds at most 10
\* entries, and they are exactly the most recently appended entries in
\* insertion order (the oldest are evicted first)
LastAppended(n) == SubSeq(appended, Len(appended) - n + 1, Len(appended))

C1_MemoryHoldsLastTen ==
    /\ Len(chat_memory) <= 10
    /\ Len(chat_memory) = (IF Len(appended) <= 10 THEN Len(appended) ELSE 10)
    /\ chat_memory = LastAppended(Len(chat_memory))

\* six exchanges (twelve entries) were appended and exactly the last ten are held
C1_Witness ==
    /\ Len(appended) = 12
    /\ Len(chat_memory) = 10
    /\ chat_memory = SubSeq(appended, 3, 12)
    /\ chat_memory[1] # appended[1]

\* C35: in every state between chat requests the conversation memory has an
\* even number of entries that strictly alternate user, assistant, starting
\* with a user entry: the eviction at the cap of 10 entries removes the two
\* entries of the oldest exchange together and never leaves an assistant
\* entry without the user entry it answers
C35_MemoryAlternates ==
    /\ Len(chat_memory) % 2 = 0
    /\ \A k \in 1..Len(chat_memory) :
          chat_memory[k].role = IF k % 2 = 1 THEN "user" ELSE "assistant"
    /\ (Len(appended) - Len(chat_memory)) % 2 = 0
    /\ chat_memory = LastAppended(Len(chat_memory))

\* six exchanges were remembered: the first was evicted whole and the memory
\* starts with the user entry of the second
C35_Witness ==
    /\ Len(appended) = 12
    /\ Len(chat_memory) = 10
    /\ chat_memory[1] = appended[3] /\ chat_memory[1].role = "user"
    /\ chat_memory[2] = appended[4] /\ chat_memory[2].role = "assistant"
    /\ appended[2].role = "assistant"

(***************************************************************************)
(* Specification of the chunk store alone: any sequence of chunk_and_store *)
(* calls                                                                   *)
(***************************************************************************)

MaxStoreCalls == 2

StoreTexts == {"", "  ", "ab", "abcde"}

StoreSources == {"", "a.mp4", "A.mp4"}

StoreCollections == {"video", "pdf"}

\* chunk_size and chunk_overlap of the calls, scaled down with the texts
StoreChunkSize == 3

StoreChunkOverlap == 1

InitStore ==
    /\ InitEmptyMemory
    /\ InitEmptyStore
    /\ db = NoDatabase
    /\ InitIdleChat
    /\ InitIdleSql

StoreCall ==
    /\ Len(storeLog) < MaxStoreCalls
    /\ \E text \in StoreTexts, source \in StoreSources, m \in StoreCollections, o \in StoreOracles :
        LET r == chunk_and_store(text, collections[m], source,
                                 StoreChunkSize, StoreChunkOverlap, uuidCount, o)
        IN  /\ collections' = [collections EXCEPT ![m] = r.col]
            /\ uuidCount' = uuidCount + r.ids
            /\ storeLog' = Append(storeLog,
                  [text |-> text, source |-> source, collection |-> m,
                   get_raises |-> o.get_raises,
                   before |-> collections[m], after |-> r.col, ret |-> r.ret])
    /\ UNCHANGED <<memoryVars, sqlVars, chatVars, ingestVars, loopVars>>

NextStore == StoreCall

SpecStore == InitStore /\ [][NextStore]_vars

\* C3: calling storeIfNew(text, source, collection) twice in succession on
\* the same collection returns alreadyExisted=true and chunkCount=0 on the
\* second call, and the second call adds no chunks
SameCallTwice(i) ==
    /\ i + 1 <= Len(storeLog)
    /\ storeLog[i + 1].text = storeLog[i].text
    /\ storeLog[i + 1].source = storeLog[i].source
    /\ storeLog[i + 1].collection = storeLog[i].collection
    /\ ~storeLog[i].ret.raised

C3_SecondStoreIsDuplicate ==
    \A i \in 1..Len(storeLog) :
        SameCallTwice(i) =>
            /\ storeLog[i + 1].ret = Returned(<<0, TRUE>>)
            /\ storeLog[i + 1].after = storeLog[i + 1].before

\* C3 as amended: ... for a text that yields at least one chunk and a
\* non-empty source, when the duplicate lookup of the second call does not
\* raise
C3_SecondStoreIsDuplicateOfStored ==
    \A i \in 1..Len(storeLog) :
        (/\ SameCallTwice(i)
         /\ storeLog[i].source # ""
         /\ Strip(storeLog[i].text) # ""
         /\ ~storeLog[i + 1].get_raises) =>
            /\ storeLog[i + 1].ret = Returned(<<0, TRUE>>)
            /\ storeLog[i + 1].after = storeLog[i + 1].before

C3_Witness ==
    /\ Len(storeLog) >= 2
    /\ SameCallTwice(1)
    /\ storeLog[1].text = "abcde"
    /\ storeLog[1].source = "a.mp4"
    /\ ~storeLog[1].ret.raised
    /\ storeLog[1].ret.value[1] >= 2
    /\ storeLog[1].ret.value[2] = FALSE
    /\ storeLog[2].ret = Returned(<<0, TRUE>>)
    /\ storeLog[2].after = storeLog[1].after

\* C4: storeIfNew called with a source that already has at least one chunk
\* in the given collection returns (0, true) and leaves the collection
\* unchanged, whatever the text is; the source is compared exactly
\* (case-sensitively)
SourceKnown(e) ==
    \E k \in 1..Len(e.before) : e.before[k].source = e.source

C4_KnownSourceSkipped ==
    \A i \in 1..Len(storeLog) :
        (storeLog[i].source # "" /\ SourceKnown(storeLog[i])) =>
            /\ storeLog[i].ret = Returned(<<0, TRUE>>)
            /\ storeLog[i].after = storeLog[i].before

\* C4 as amended: ... when the duplicate lookup does not raise; a source
\* that differs from every stored source, be it only in letter case, is
\* never reported as already existing
C4_KnownSourceSkippedWhenLookedUp ==
    \A i \in 1..Len(storeLog) :
        /\ (storeLog[i].source # "" /\ SourceKnown(storeLog[i]) /\ ~storeLog[i].get_raises) =>
              /\ storeLog[i].ret = Returned(<<0, TRUE>>)
              /\ storeLog[i].after = storeLog[i].before
        /\ ~SourceKnown(storeLog[i]) => storeLog[i].ret # Returned(<<0, TRUE>>)

\* a source with stored chunks is offered again with another text, and a
\* source differing in case only is stored as new
C4_Witness ==
    /\ Len(storeLog) = 2
    /\ storeLog[1].source = "a.mp4" /\ storeLog[1].text = "abcde"
    /\ storeLog[1].collection = storeLog[2].collection
    /\ storeLog[2].source = "a.mp4" /\ storeLog[2].text = "ab"
    /\ storeLog[2].before # <<>>
    /\ storeLog[2].ret = Returned(<<0, TRUE>>)
    /\ storeLog[2].after = storeLog[2].before

\* the call of log entry e made its duplicate lookup and the lookup raised
LookupRaised(e) == e.source # "" /\ e.get_raises

\* the chunks the call of log entry e added to its collection
AddedBy(e) == SubSeq(e.after, Len(e.before) + 1, Len(e.after))

\* the call of log entry e stored the text as that of a new source
StoredAsNew(e) ==
    LET chunks == split_text(e.text, StoreChunkSize, StoreChunkOverlap)
    IN  /\ e.ret = Returned(<<Len(chunks), FALSE>>)
        /\ SubSeq(e.after, 1, Len(e.before)) = e.before
        /\ Len(AddedBy(e)) = Len(chunks)
        /\ \A k \in 1..Len(chunks) :
              AddedBy(e)[k].document = chunks[k] /\ AddedBy(e)[k].source = e.source

\* C33: when the duplicate check against the collection raises, storeIfNew
\* proceeds as if the source were not a duplicate: it chunks and inserts the
\* text and returns alreadyExisted=false, also for a source that has chunks
\* in the collection; an insertion that fails raises as it does for a new
\* source
C33_FailedLookupStores ==
    \A i \in 1..Len(storeLog) :
        LookupRaised(storeLog[i]) =>
            IF storeLog[i].ret.raised
            THEN storeLog[i].after = storeLog[i].before
            ELSE StoredAsNew(storeLog[i])

\* a source with stored chunks was offered again, the lookup raised and the
\* text was stored a second time
C33_Witness ==
    /\ Len(storeLog) = 2
    /\ storeLog[1].source = "a.mp4" /\ storeLog[1].text = "abcde"
    /\ storeLog[2].source = "a.mp4" /\ storeLog[2].text = "abcde"
    /\ storeLog[1].collection = storeLog[2].collection
    /\ ~storeLog[1].ret.raised /\ storeLog[1].after # <<>>
    /\ storeLog[2].get_raises
    /\ storeLog[2].ret = Returned(<<2, FALSE>>)
    /\ Len(storeLog[2].after) = 4

(***************************************************************************)
(* Specification of the service: CSV uploads and chat requests in every    *)
(* mode, with every outcome of the backends                                *)
(***************************************************************************)

MaxChats == 2

MaxCsvUploads == 1

\* one chunk in every collection, as left by one upload per modality
SeededCollections ==
    [m \in Modalities |-> <<[id |-> 1, document |-> "about " \o m, source |-> m \o ".bin"]>>]

\* the files uploaded between chats: one table to query, one file pandas
\* cannot parse and one file whose name leaves no table name
CsvFiles ==
    {[filename |-> "Users.csv", parsed |-> TRUE, columns |-> <<"name", "age">>,
      rows |-> << <<"ann", "30">>, <<"bob", "25">> >>],
     [filename |-> "broken.csv", parsed |-> FALSE, columns |-> <<>>, rows |-> <<>>],
     [filename |-> ".csv", parsed |-> TRUE, columns |-> <<"name">>, rows |-> << <<"dee">> >>]}

Messages == {"", "  ", "who?"}

AllRequests ==
    [message : Messages, use_sql : BOOLEAN, use_video : BOOLEAN, use_audio : BOOLEAN,
     use_pdf : BOOLEAN, use_image : BOOLEAN]

FlagsSet(req) ==
    { f \in {"sql", "video", "audio", "pdf", "image"} :
        \/ (f = "sql" /\ req.use_sql)
        \/ (f = "video" /\ req.use_video)
        \/ (f = "audio" /\ req.use_audio)
        \/ (f = "pdf" /\ req.use_pdf)
        \/ (f = "image" /\ req.use_image) }

\* the requests with no flag, one flag or all flags set
Requests ==
    { req \in AllRequests : req.message # "" /\ Cardinality(FlagsSet(req)) \in {0, 1, 5} }

\* what the backends answer when asked for SQL
LlmQueries ==
    {"SELECT name FROM users",
     "SELECT name WHERE age>5 FROM users",
     Fence \o "sql\nSELECT * FROM users LIMIT 5;\n" \o Fence,
     "DELETE FROM users",
     "DROP TABLE users",
     "CREATE TABLE copy AS SELECT * FROM users",
     "SELECT * FROM users; DROP TABLE users",
     "select * from missing"}

DefaultOracle ==
    [ollama_sql |-> Raised("ollama down"), groq_sql |-> Raised("groq down"),
     ollama_chat |-> Returned("A"), groq_chat |-> Returned("B"),
     schema_raises |-> FALSE, exec_fails |-> FALSE, format_raises |-> FALSE,
     query_raises |-> FALSE, nrows |-> 0]

\* outcomes of the calls of the SQL branch: the schema cannot be read; the
\* first backend answers and the statement gives two rows; the statement
\* fails or gives no row; the first backend raises and the second raises or
\* answers
SqlOracles ==
    {[DefaultOracle EXCEPT !.schema_raises = TRUE]}
    \cup { [DefaultOracle EXCEPT !.ollama_sql = Returned(q), !.nrows = 2] : q \in LlmQueries }
    \cup { [DefaultOracle EXCEPT !.ollama_sql = Returned("SELECT name FROM users"),
                                 !.exec_fails = ef] : ef \in BOOLEAN }
    \cup {[DefaultOracle EXCEPT !.ollama_sql = Returned("SELECT name FROM users"),
                                !.nrows = 2, !.format_raises = TRUE]}
    \cup { [DefaultOracle EXCEPT !.groq_sql = b, !.nrows = 2] :
             b \in {Raised("groq down"), Returned("SELECT name WHERE age>5 FROM users"),
                    Returned(Fence \o "\nSELECT name FROM users\n" \o Fence)} }

\* outcomes of the calls of the other branches; one of the Ollama answers
\* is a genuine reply that speaks of a "Fallback Error"
ChatOracles ==
    { [DefaultOracle EXCEPT !.ollama_chat = a, !.groq_chat = b, !.query_raises = qr] :
        a \in {Returned("A"), Returned("what a Fallback Error is"), Raised("ollama down")},
        b \in {Returned("B"), Raised("groq down")},
        qr \in BOOLEAN }

\* the outcomes that matter to a request: a blank message is answered
\* before any call is made
OraclesFor(req) ==
    IF Strip(req.message) = "" THEN {DefaultOracle}
    ELSE IF req.use_sql THEN SqlOracles ELSE ChatOracles

Init ==
    /\ InitEmptyMemory
    /\ collections \in {EmptyCollections, SeededCollections}
    /\ uuidCount = 0
    /\ storeLog = <<>>
    /\ db = NoDatabase
    /\ InitIdleChat
    /\ InitIdleSql

UploadCsv ==
    /\ csvUploads < MaxCsvUploads
    /\ \E file \in CsvFiles : upload_csv(file)

Chat ==
    /\ chats < MaxChats
    /\ \E req \in Requests : \E o \in OraclesFor(req) : chat(req, o)

Next == UploadCsv \/ Chat

Spec == Init /\ [][Next]_vars

(***************************************************************************)
(* Specification of the routing: chat requests with every combination of   *)
(* the flags, on a service with or without uploaded content                *)
(***************************************************************************)

MaxRouteChats == 2

UsersDatabase == process_csv(CHOOSE f \in CsvFiles : f.filename = "Users.csv", NoDatabase).db

RouteSqlOracles ==
    { [DefaultOracle EXCEPT !.ollama_sql = a, !.nrows = 2] :
        a \in {Raised("ollama down"), Returned("SELECT name FROM users")} }

RouteChatOracles ==
    { [DefaultOracle EXCEPT !.ollama_chat = a, !.groq_chat = b] :
        a \in {Returned("A"), Raised("ollama down")},
        b \in {Returned("B"), Raised("groq down")} }

InitRoute ==
    /\ InitEmptyMemory
    /\ collections \in {EmptyCollections, SeededCollections}
    /\ uuidCount = 0
    /\ storeLog = <<>>
    /\ db \in {NoDatabase, UsersDatabase}
    /\ InitIdleChat
    /\ InitIdleSql

ChatRoute ==
    /\ chats < MaxRouteChats
    /\ \E req \in AllRequests :
         \E o \in (IF Strip(req.message) = "" THEN {DefaultOracle}
                   ELSE IF req.use_sql THEN RouteSqlOracles ELSE RouteChatOracles) :
            chat(req, o)

NextRoute == ChatRoute

SpecRoute == InitRoute /\ [][NextRoute]_vars

(***************************************************************************)
(* Properties of the chat handler                                          *)
(***************************************************************************)

Served == chats > 0 /\ Strip(request.message) # ""

\* the mode of the first set flag in the order SQL, Video, Audio, PDF, Image
FirstFlag(req) ==
    IF req.use_sql THEN "sql"
    ELSE IF req.use_video THEN "video"
    ELSE IF req.use_audio THEN "audio"
    ELSE IF req.use_pdf THEN "pdf"
    ELSE IF req.use_image THEN "image"
    ELSE "normal"

\* the responses each mode path can end with
SourcesOf ==
    [sql |-> {"SQL Context", "SQL Query", "SQL Error"},
     video |-> {"Video Context", "Groq (Video)", "Ollama (Video Fallback)"},
     audio |-> {"Audio Context", "Ollama (Audio)", "Groq (Audio Fallback)"},
     pdf |-> {"PDF Context", "Ollama (PDF)", "Groq (PDF Fallback)"},
     image |-> {"Image Context", "Ollama (Image)", "Groq (Image Fallback)"},
     normal |-> {"Ollama", "Groq (Fallback)"}]

ErrorPrefixOf ==
    [sql |-> "SQL query failed", video |-> "(none)", audio |-> "Audio query failed",
     pdf |-> "PDF query failed", image |-> "Image query failed",
     normal |-> "Both AI services failed"]

EndsOnPath(resp, mode) ==
    IF "source" \in resp.keys
    THEN resp.source \in SourcesOf[mode]
    ELSE "error" \in resp.keys /\ StartsWith(resp.error, ErrorPrefixOf[mode])

\* the instruction each mode puts at the head of its prompt
PromptOf ==
    [video |-> "Answer the question ONLY based on the video transcript provided. If not found, say question is not related to the video.",
     audio |-> AudioBranch.system_instr,
     pdf |-> PdfBranch.system_instr,
     image |-> ImageBranch.system_instr,
     normal |-> "Use the following recent conversation for context and coherence."]

\* the mode whose retrieval source or backend the call touches
ModeTouched(c) ==
    IF c.op \in {"get_db_schema", "generate_sql_with_llm.ollama", "generate_sql_with_llm.groq",
                 "repair_sql", "enforce_sql_safety", "execute_sql", "format_sql_table"}
    THEN {"sql"}
    ELSE IF c.op = "retrieve_context" THEN {c.arg}
    ELSE IF c.op \in {"send_groq_chat", "send_ollama_chat"}
    THEN { m \in DOMAIN PromptOf : c.messages[1].content = PromptOf[m] }
    ELSE {}

\* C2: for every combination of the five flags on a non-empty message the
\* handler takes exactly one mode path, that of the first set flag in the
\* order SQL, Video, Audio, PDF, Image, or Normal when no flag is set; the
\* retrieval sources and backends of the other modes are not touched
C2_FirstFlagDecides ==
    Served =>
        /\ EndsOnPath(response, FirstFlag(request))
        /\ \A m \in DOMAIN SourcesOf : m # FirstFlag(request) => ~EndsOnPath(response, m)
        /\ \A i \in 1..Len(calls) : ModeTouched(calls[i]) \subseteq {FirstFlag(request)}

\* all five flags are set, every collection holds content, and the SQL path
\* answered
C2_Witness ==
    /\ Served
    /\ FlagsSet(request) = {"sql", "video", "audio", "pdf", "image"}
    /\ collections = SeededCollections
    /\ response.source = "SQL Query"
    /\ \E i \in 1..Len(calls) : calls[i].op = "execute_sql"

StageOf ==
    [op \in {"get_db_schema", "generate_sql_with_llm.ollama", "generate_sql_with_llm.groq",
             "repair_sql", "enforce_sql_safety", "execute_sql", "format_sql_table",
             "remember_exchange"} |->
        CASE op = "get_db_schema" -> 0
          [] op \in {"generate_sql_with_llm.ollama", "generate_sql_with_llm.groq"} -> 1
          [] op = "repair_sql" -> 2
          [] op = "enforce_sql_safety" -> 3
          [] op = "execute_sql" -> 4
          [] op = "format_sql_table" -> 5
          [] OTHER -> 6]

CallsOf(op) == { i \in 1..Len(calls) : calls[i].op = op }

\* C9: in SQL mode the stages run in the order generate, repair,
\* enforceSafety, execute; execute is invoked only with the string that
\* enforceSafety returned for the output of repair; when repair or
\* enforceSafety rejects, execute is not invoked
C9_OnlySafeFormExecuted ==
    (Served /\ request.use_sql) =>
        /\ \A i \in 1..Len(calls), j \in 1..Len(calls) :
              i < j => StageOf[calls[i].op] <= StageOf[calls[j].op]
        /\ Cardinality(CallsOf("execute_sql")) <= 1
        /\ \A x \in CallsOf("execute_sql") :
              \E g \in CallsOf("generate_sql_with_llm.ollama") \cup CallsOf("generate_sql_with_llm.groq"),
                 r \in CallsOf("repair_sql"), e \in CallsOf("enforce_sql_safety") :
                  /\ g < r /\ r < e /\ e < x
                  /\ ~repair_sql(calls[r].arg).raised
                  /\ calls[e].arg = repair_sql(calls[r].arg).value
                  /\ ~enforce_sql_safety(calls[e].arg).raised
                  /\ calls[x].arg = enforce_sql_safety(calls[e].arg).value
        /\ \A r \in CallsOf("repair_sql") :
              repair_sql(calls[r].arg).raised =>
                  CallsOf("enforce_sql_safety") \cup CallsOf("execute_sql") = {}
        /\ \A e \in CallsOf("enforce_sql_safety") :
              enforce_sql_safety(calls[e].arg).raised => CallsOf("execute_sql") = {}

\* a generated query with WHERE before FROM was repaired, limited and executed
C9_Witness ==
    /\ Served /\ request.use_sql
    /\ \E r \in CallsOf("repair_sql"), x \in CallsOf("execute_sql") :
          /\ calls[r].arg = "SELECT name WHERE age>5 FROM users"
          /\ calls[x].arg = "SELECT name FROM users WHERE age>5 LIMIT 100;"

\* C10: no chat request changes the tabular store, whatever SQL the backends
\* generate: every table is as the last CSV upload left it
C10_ChatLeavesTablesAlone == [][chats' # chats => db' = db]_vars

\* a backend answered with a statement that would change the store; the
\* request was refused and the uploaded table is still there
C10_Witness ==
    /\ Served /\ request.use_sql
    /\ \E r \in CallsOf("repair_sql") : calls[r].arg = "CREATE TABLE copy AS SELECT * FROM users"
    /\ response.source = "SQL Error"
    /\ db = UsersDatabase

\* the calls to an LLM backend
LlmOps ==
    {"send_groq_chat", "send_ollama_chat",
     "generate_sql_with_llm.ollama", "generate_sql_with_llm.groq"}

CallsAmong(ops) == { i \in 1..Len(calls) : calls[i].op \in ops }

MemoryUntouched == chat_memory' = chat_memory /\ appended' = appended

UploadFirst ==
    ReplyFrom("No SQL database available. Please upload a CSV file first.", "SQL Context")

AskedToUpload ==
    /\ response = UploadFirst
    /\ CallsAmong(LlmOps) = {}
    /\ CallsOf("execute_sql") = {}

SchemaRead == \A i \in CallsOf("get_db_schema") : ~calls[i].raised

SqlStageFailed ==
    \/ \E i \in CallsAmong({"get_db_schema", "repair_sql", "enforce_sql_safety",
                            "execute_sql", "format_sql_table"}) : calls[i].raised
    \/ /\ \E i \in CallsOf("generate_sql_with_llm.ollama") : calls[i].raised
       /\ \E i \in CallsOf("generate_sql_with_llm.groq") : calls[i].raised

SqlErrorResponse ==
    /\ response.keys = {"error", "source"}
    /\ response.source = "SQL Error"
    /\ StartsWith(response.error, "SQL query failed: ")

\* C12: in SQL mode a failure at any stage (schema read, generation on both
\* backends, repair, safety gate, execution, formatting) gives a structured
\* error response: the handler returns, and the request leaves the
\* conversation memory unchanged
C12_SqlFailureAnswered ==
    [][(chats' # chats /\ (Served /\ request.use_sql /\ SqlStageFailed)')
          => (SqlErrorResponse' /\ MemoryUntouched)]_vars

\* the statement ran and gave rows, the formatting failed: an SQL error was
\* returned and nothing was remembered
C12_Witness ==
    /\ Served /\ request.use_sql
    /\ \E i \in CallsOf("execute_sql") : ~calls[i].raised
    /\ \E i \in CallsOf("format_sql_table") : calls[i].raised
    /\ SqlErrorResponse
    /\ CallsOf("remember_exchange") = {}

MediaModes == {"video", "audio", "pdf", "image"}

\* the context the retrieval of the request gave was empty
EmptyContext == \E i \in CallsOf("retrieve_context") : calls[i].ret = ""

\* the fixed reply of each mode for a question without context
NotFoundReply ==
    [video |-> ReplyFrom("Question is not in this video (no matching transcript context).",
                         "Video Context"),
     audio |-> ReplyFrom("Question is not in this audio (no matching transcript context).",
                         "Audio Context"),
     pdf |-> ReplyFrom("Question is not in this PDF (no matching document context).",
                       "PDF Context"),
     image |-> ReplyFrom("No image has been uploaded yet, or the question cannot be matched with the uploaded image content. Please upload an image first.",
                         "Image Context")]

\* C13: in Video, Audio, PDF and Image mode, when the retrieval gives an
\* empty context the handler returns the fixed not-found reply of the mode,
\* calls no LLM backend and appends nothing to the conversation memory
C13_EmptyContextNotFound ==
    [][(chats' # chats /\ (Served /\ FirstFlag(request) \in MediaModes /\ EmptyContext)')
          => (/\ (response = NotFoundReply[FirstFlag(request)])'
              /\ (CallsAmong(LlmOps) = {})'
              /\ MemoryUntouched)]_vars

\* a PDF question on a collection that holds chunks, the search raised: the
\* context was empty, the not-found reply was returned, the memory of the
\* earlier exchange stayed
C13_Witness ==
    /\ Served /\ FirstFlag(request) = "pdf"
    /\ collections["pdf"] # <<>>
    /\ EmptyContext
    /\ response = NotFoundReply["pdf"]
    /\ chat_memory # <<>>

\* C14: in Video mode with a non-empty context the primary backend (Groq)
\* is called first; the secondary backend (Ollama) is called only if the
\* primary call raised; when the primary succeeds, its reply is the one
\* returned (under the Groq heading of the mode) and the secondary is not
\* called
C14_VideoPrimaryFirst ==
    (Served /\ FirstFlag(request) = "video" /\ ~EmptyContext) =>
        /\ Cardinality(CallsOf("send_groq_chat")) = 1
        /\ \A g \in CallsOf("send_groq_chat") :
              /\ \A l \in CallsOf("send_ollama_chat") : g < l /\ calls[g].raised
              /\ ~calls[g].raised =>
                    /\ CallsOf("send_ollama_chat") = {}
                    /\ response.reply = "GROQ answer (llama-3.1-8b-instant) [Video Mode]: \n"
                                            \o calls[g].ret
                    /\ response.source = "Groq (Video)"

\* the primary backend answered a video question and its reply was returned
C14_Witness ==
    /\ Served /\ FirstFlag(request) = "video" /\ ~EmptyContext
    /\ \E g \in CallsOf("send_groq_chat") : ~calls[g].raised /\ calls[g].ret = "B"
    /\ response.source = "Groq (Video)"

DocumentModes == {"audio", "pdf", "image"}

\* the reply of the local backend reports a failure: it carries the marker
\* send_ollama_chat puts in front of the error
LocalFailed(l) == Contains(calls[l].ret, "Ollama Fallback Error")

\* C15: in Audio, PDF and Image mode with a non-empty context the local
\* backend (Ollama) is called first; the hosted backend (Groq) is called only
\* if the local one failed, that is its reply carries the failure marker;
\* when the local backend answers, the hosted one is not called and the
\* local reply is returned
C15_DocumentLocalFirst ==
    (Served /\ FirstFlag(request) \in DocumentModes /\ ~EmptyContext) =>
        /\ Cardinality(CallsOf("send_ollama_chat")) = 1
        /\ \A l \in CallsOf("send_ollama_chat") :
              /\ \A g \in CallsOf("send_groq_chat") : l < g /\ LocalFailed(l)
              /\ ~LocalFailed(l) =>
                    /\ CallsOf("send_groq_chat") = {}
                    /\ response.keys = {"reply", "source"}
                    /\ response.reply = calls[l].ret

\* the local backend answered an audio question with a reply that speaks of
\* a "Fallback Error" without being one; the reply was returned
C15_Witness ==
    /\ Served /\ FirstFlag(request) = "audio" /\ ~EmptyContext
    /\ \E l \in CallsOf("send_ollama_chat") : calls[l].ret = "what a Fallback Error is"
    /\ response.source = "Ollama (Audio)"
    /\ response.reply = "what a Fallback Error is"

\* Normal mode: no retrieval, backend A (Ollama) first, backend B (Groq)
\* exactly when the reply of A contains the marker "Fallback Error"
NormalOrder ==
    /\ CallsOf("retrieve_context") = {}
    /\ Cardinality(CallsOf("send_ollama_chat")) = 1
    /\ Cardinality(CallsOf("send_groq_chat")) <= 1
    /\ \A a \in CallsOf("send_ollama_chat") :
          /\ \A b \in CallsOf("send_groq_chat") : a < b
          /\ CallsOf("send_groq_chat") # {} <=> Contains(calls[a].ret, "Fallback Error")

BothFailed == \E b \in CallsOf("send_groq_chat") : calls[b].raised

BothFailedResponse ==
    /\ response.keys = {"error"}
    /\ StartsWith(response.error, "Both AI services failed.")

\* C16: in Normal mode no retrieval is done; backend A is called first and
\* backend B is called if and only if the reply of A contains the failure
\* marker; when B fails too, the request returns an error response (the
\* handler returns) and the conversation memory is unchanged
C16_NormalFallback ==
    [][(chats' # chats /\ (Served /\ FirstFlag(request) = "normal")')
          => (/\ NormalOrder'
              /\ BothFailed' => (BothFailedResponse' /\ MemoryUntouched))]_vars

\* both backends failed on a plain question asked after an earlier exchange
C16_Witness ==
    /\ Served /\ FirstFlag(request) = "normal"
    /\ \E a \in CallsOf("send_ollama_chat") : Contains(calls[a].ret, "Fallback Error")
    /\ BothFailed
    /\ BothFailedResponse
    /\ chat_memory # <<>>

\* the request was answered before its branch did any work: the message is
\* blank, the schema is absent, or the retrieved context is empty
ShortCircuited ==
    \/ Strip(request.message) = ""
    \/ (FirstFlag(request) = "sql" /\ db.tables = <<>> /\ SchemaRead)
    \/ (FirstFlag(request) \in MediaModes /\ EmptyContext)

RememberedOnce ==
    /\ Cardinality(CallsOf("remember_exchange"))' = 1
    /\ Len(appended') = Len(appended) + 2
    /\ appended'[Len(appended) + 1] = Entry("user", request'.message)
    /\ appended'[Len(appended) + 2].role = "assistant"

\* C17: every chat request that is not short-circuited (blank message,
\* absent schema, empty retrieved context) ends by calling remember exactly
\* once, in every mode and on every backend outcome
C17_RememberedOnce ==
    [][(chats' # chats /\ ~ShortCircuited') => RememberedOnce]_vars

\* C17 as amended: ... that is not short-circuited and is not answered with
\* an error response ends by calling remember exactly once
C17_RememberedOnceUnlessError ==
    [][(chats' # chats /\ ~ShortCircuited' /\ "error" \notin response'.keys)
          => RememberedOnce]_vars

\* a video question after an earlier exchange, both backends failed: the
\* reply of the fallback was returned and remembered once
C17_Witness ==
    /\ Served /\ FirstFlag(request) = "video" /\ ~ShortCircuited
    /\ \E g \in CallsOf("send_groq_chat") : calls[g].raised
    /\ \E l \in CallsOf("send_ollama_chat") : LocalFailed(l)
    /\ Cardinality(CallsOf("remember_exchange")) = 1
    /\ Len(appended) = 4

\* C18: the assistant text a chat request stores with remember is exactly the
\* reply text returned to the caller for that request, backend prefix
\* included, in every mode
C18_RememberedIsReturned ==
    [][(chats' # chats /\ Len(appended') = Len(appended) + 2)
          => appended'[Len(appended') ] = Entry("assistant", response'.reply)]_vars

BlankMessage == Strip(request.message) = ""

\* C19: a chat request whose message is empty or whitespace-only returns an
\* error response without calling retrieval, the tabular store or any LLM
\* backend, and leaves conversation memory unchanged, whatever flags are set
C19_BlankMessageRejected ==
    [][(chats' # chats /\ BlankMessage')
          => (/\ response' = ErrorOnly("Message cannot be empty")
              /\ calls' = <<>>
              /\ db' = db
              /\ MemoryUntouched)]_vars

\* a whitespace-only message with the SQL and video flags set, sent to a
\* service with stored content, a user table and a remembered exchange
C19_Witness ==
    /\ chats > 0 /\ BlankMessage /\ request.message # ""
    /\ request.use_sql /\ request.use_video
    /\ "error" \in response.keys /\ calls = <<>>
    /\ collections = SeededCollections /\ db = UsersDatabase
    /\ chat_memory # <<>>

\* the request met a failure: a call raised, the local backend returned its
\* failure text, or the request was answered with an error
RequestFailed ==
    \/ \E i \in DOMAIN calls : calls[i].raised
    \/ \E l \in CallsOf("send_ollama_chat") : LocalFailed(l)
    \/ "error" \in response.keys

ReplyOrError ==
    /\ Cardinality(response.keys \cap {"reply", "error"}) = 1
    /\ "reply" \in response.keys => response.reply # ""
    /\ "error" \in response.keys => response.error # ""

\* C20: no request failure is fatal: in every mode and for every combination
\* of backend, retrieval and store failures the chat handler ends with a
\* response carrying either a reply or an error, a request answered with an
\* error leaves the service as it was, and the service accepts the next
\* request, which is answered in the same way
C20_NoFailureFatal ==
    /\ [](chats < MaxChats => ENABLED Chat)
    /\ [][chats' # chats
            => (/\ ReplyOrError'
                /\ "error" \in response'.keys
                      => (MemoryUntouched /\ db' = db /\ collections' = collections))]_vars

\* a second request, sent after an exchange was remembered, met failures of
\* both backends in PDF mode and was answered with an error
C20_Witness ==
    /\ chats = 2 /\ Served /\ FirstFlag(request) = "pdf"
    /\ \E l \in CallsOf("send_ollama_chat") : LocalFailed(l)
    /\ \E g \in CallsOf("send_groq_chat") : calls[g].raised
    /\ RequestFailed /\ ReplyOrError /\ "error" \in response.keys
    /\ chat_memory # <<>>

\* the replies of the local backend that report its failure
FailureReplies ==
    { calls[l].ret : l \in { i \in CallsOf("send_ollama_chat") : LocalFailed(i) } }

\* C36: a failure marker of a backend is never presented as an answer: in
\* every mode, when the reply of the local backend carries the failure
\* marker, that text is neither returned under the reply key nor appended to
\* the conversation memory
C36_FailureMarkerNotAnswered ==
    [][(chats' # chats /\ Served') =>
          /\ response'.reply \notin FailureReplies'
          /\ \A k \in (Len(appended) + 1)..Len(appended') :
                 appended'[k].content \notin FailureReplies']_vars

GenerationOps == {"generate_sql_with_llm.ollama", "generate_sql_with_llm.groq"}

Generations == CallsAmong(GenerationOps)

\* the answer q wrapped in a markdown code fence, tagged sql or not
FencedForms(q) ==
    {Fence \o "sql\n" \o q \o "\n" \o Fence, Fence \o "\n" \o q \o "\n" \o Fence}

PlainQueries == {"SELECT name FROM users", "SELECT * FROM users LIMIT 5;"}

\* the SQL the generation produced: what the handler hands to repair_sql
GeneratedSql == { calls[i].arg : i \in CallsOf("repair_sql") }

GateLeads == {"", "  "}

GateStatements ==
    {"select * from t", "SELECT name FROM users", "selected from t",
     "DELETE FROM users", "with q as (select 1) select * from q"}

GateConditions ==
    {"", " where note=' limit '", " where dropped=1", " where drop_x=1",
     "; DROP TABLE users"}

GateLimits == {"", " limit 5", " LIMIT 5", "\nlimit 5"}

GateEnds == {"", ";", ";;", "; "}

UpperKeyword(kw) ==
    CHOOSE u \in {"DELETE", "DROP", "UPDATE", "INSERT", "ALTER",
                  "TRUNCATE", "CREATE", "REPLACE", "ATTACH", "DETACH"} : ToLower(u) = kw

GateInputs ==
    { l \o st \o c \o lim \o e :
        l \in GateLeads, st \in GateStatements, c \in GateConditions,
        lim \in GateLimits, e \in GateEnds }
    \cup { "select a from t; " \o kw \o " x" : kw \in FORBIDDEN_KEYWORDS }
    \cup { "SELECT a FROM t; " \o UpperKeyword(kw) \o " x" : kw \in FORBIDDEN_KEYWORDS }
    \cup { "select " \o kw \o "s from t" : kw \in FORBIDDEN_KEYWORDS }

\* queries for the repair: the two clause orders it rewrites and the valid
\* order, with and without a subquery in the predicate
RepairColumns == {"name", "a, b", "*"}

RepairPredicates == {"age>5", "a=1 AND b=2", "x IN (SELECT b FROM u)"}

RepairOrderings == {"age", "a DESC, b"}

RepairTables == {"users", "t", "T_1"}

RepairGaps == {" ", "  ", "\n"}

WhereBeforeFrom(c, p, t, gap) ==
    "SELECT" \o gap \o c \o gap \o "WHERE" \o gap \o p \o gap \o "FROM" \o gap \o t

OrderBeforeFrom(c, o, t, gap) ==
    "SELECT" \o gap \o c \o gap \o "ORDER BY" \o gap \o o \o gap \o "FROM" \o gap \o t

\* a query with its clauses in valid order: FROM, then the WHERE clause when
\* p is given, then the ORDER BY clause when o is given
FromFirst(c, t, p, o, gap) ==
    "SELECT" \o gap \o c \o gap \o "FROM" \o gap \o t
        \o (IF p = "" THEN "" ELSE gap \o "WHERE" \o gap \o p)
        \o (IF o = "" THEN "" ELSE gap \o "ORDER BY" \o gap \o o)

ValidOrderInputs ==
    { FromFirst(c, t, p, o, g) :
        c \in RepairColumns, t \in RepairTables, p \in RepairPredicates \cup {""},
        o \in RepairOrderings \cup {""}, g \in RepairGaps }

RepairInputs ==
    ValidOrderInputs
    \cup
    { WhereBeforeFrom(c, p, t, g) :
        c \in RepairColumns, p \in RepairPredicates, t \in RepairTables, g \in RepairGaps }
    \cup
    { OrderBeforeFrom(c, o, t, g) :
        c \in RepairColumns, o \in RepairOrderings, t \in RepairTables, g \in RepairGaps }
    \cup
    {"select 1", "SELECT a FROM FROM t", "SELECT a FROM t WHERE b ORDER BY c",
     "select  name\nwhere a=1   from t"}

SqlInputs == GateInputs \cup RepairInputs

InitSql ==
    /\ InitEmptyMemory
    /\ InitEmptyStore
    /\ db = NoDatabase
    /\ InitIdleChat
    /\ sqlIn \in SqlInputs
    /\ sqlOp = "none"
    /\ sqlOut = Returned("")

EnforceSafety ==
    /\ sqlOp = "none"
    /\ sqlOp' = "enforce_sql_safety"
    /\ sqlOut' = enforce_sql_safety(sqlIn)
    /\ UNCHANGED <<sqlIn, memoryVars, storeVars, chatVars, ingestVars, loopVars>>

Repair ==
    /\ sqlOp = "none"
    /\ sqlOp' = "repair_sql"
    /\ sqlOut' = repair_sql(sqlIn)
    /\ UNCHANGED <<sqlIn, memoryVars, storeVars, chatVars, ingestVars, loopVars>>

NextSql == EnforceSafety \/ Repair

SpecSql == InitSql /\ [][NextSql]_vars

(***************************************************************************)
(* Properties of the SQL gate                                              *)
(***************************************************************************)

\* the query begins, after leading whitespace, with the letters of SELECT
\* in either case
BeginsWithSelect(q) ==
    LET t == LStrip(q)
    IN  /\ Len(t) >= 6
        /\ \A i \in 1..6 : Ch(t, i) \in {Ch("select", i), Ch("SELECT", i)}

\* q[i..j] is a word of q: a maximal run of word characters
IsWordAt(q, i, j) ==
    /\ i <= j
    /\ \A k \in i..j : IsWordChar(Ch(q, k))
    /\ (i = 1 \/ ~IsWordChar(Ch(q, i - 1)))
    /\ (j = Len(q) \/ ~IsWordChar(Ch(q, j + 1)))

HasForbiddenWord(q) ==
    \E i \in 1..Len(q), j \in 1..Len(q) :
        IsWordAt(q, i, j) /\ ToLower(SubSeq(q, i, j)) \in FORBIDDEN_KEYWORDS

\* C5: enforceSafety rejects every query that does not start
\* (case-insensitively, leading whitespace aside) with SELECT and every query
\* in which a forbidden keyword occurs as a whole word anywhere; a rejected
\* query is not returned
C5_GateRejects ==
    (sqlOp = "enforce_sql_safety" /\ (~BeginsWithSelect(sqlIn) \/ HasForbiddenWord(sqlIn)))
        => (sqlOut.raised /\ sqlOut.value # sqlIn)

C5_Witness ==
    /\ sqlOp = "enforce_sql_safety"
    /\ sqlIn = "SELECT name FROM users; DROP TABLE users"
    /\ sqlOut.raised

\* position i of q lies inside a single-quoted string literal
InQuote(q, i) == Cardinality({ k \in 1..(i - 1) : Ch(q, k) = "'" }) % 2 = 1

\* q carries a LIMIT clause: the keyword LIMIT, in either case, as a whole
\* word outside string literals
HasLimitClause(q) ==
    \E i \in 1..(Len(q) - 4) :
        /\ IsWordAt(q, i, i + 4)
        /\ ToLower(SubSeq(q, i, i + 4)) = "limit"
        /\ ~InQuote(q, i)

EndsWith(s, p) == Len(s) >= Len(p) /\ SubSeq(s, Len(s) - Len(p) + 1, Len(s)) = p

\* C6: for an accepted query with no LIMIT clause, enforceSafety returns the
\* query with " LIMIT 100" inserted before the trailing semicolon; for an
\* accepted query that already has a LIMIT clause it returns the query
\* unchanged modulo the trailing semicolon
C6_LimitInserted ==
    (sqlOp = "enforce_sql_safety" /\ ~sqlOut.raised) =>
        IF HasLimitClause(sqlIn)
        THEN RStripSemi(sqlOut.value) = RStripSemi(sqlIn)
        ELSE sqlOut.value = RStripSemi(sqlIn) \o " LIMIT 100;"

\* C7: every query that enforceSafety returns carries an explicit row-limit
\* clause
C7_ReturnedQueryLimited ==
    (sqlOp = "enforce_sql_safety" /\ ~sqlOut.raised) => HasLimitClause(sqlOut.value)

\* C8: for any columns c, predicate p, ordering o and table t, repair
\* rewrites "SELECT c WHERE p FROM t" to "SELECT c FROM t WHERE p" and
\* "SELECT c ORDER BY o FROM t" to "SELECT c FROM t ORDER BY o", with
\* whitespace normalized
C8_RepairReorders ==
    sqlOp = "repair_sql" =>
        /\ \A c \in RepairColumns, p \in RepairPredicates, t \in RepairTables, g \in RepairGaps :
            sqlIn = WhereBeforeFrom(c, p, t, g) =>
                sqlOut = Returned("SELECT " \o c \o " FROM " \o t \o " WHERE " \o p)
        /\ \A c \in RepairColumns, o \in RepairOrderings, t \in RepairTables, g \in RepairGaps :
            sqlIn = OrderBeforeFrom(c, o, t, g) =>
                sqlOut = Returned("SELECT " \o c \o " FROM " \o t \o " ORDER BY " \o o)

\* C37: repair changes nothing but whitespace in a query whose clauses are
\* already in valid order (FROM before WHERE and ORDER BY), queries with a
\* subquery included: the output is the input with its whitespace
\* normalized
C37_ValidOrderUntouched ==
    sqlOp = "repair_sql" =>
        \A c \in RepairColumns, t \in RepairTables, p \in RepairPredicates \cup {""},
           o \in RepairOrderings \cup {""}, g \in RepairGaps :
            sqlIn = FromFirst(c, t, p, o, g) => sqlOut = Returned(FromFirst(c, t, p, o, " "))

(***************************************************************************)
(* Specification of the OCR heuristic alone: is_scanned_pdf applied to     *)
(* texts around its thresholds                                             *)
(***************************************************************************)

RECURSIVE Rep(_, _)
\* Python's c * n
Rep(c, n) ==
    IF n = 0 THEN ""
    ELSE LET half == Rep(c, n \div 2)
         IN  IF n % 2 = 0 THEN half \o half ELSE half \o half \o c

\* the texts: lead blanks, then letters, then digits, then trail newlines
OcrLetterCounts == {0, 99, 100, 299, 300, 359, 360, 500}

OcrDigitCounts == {0, 1, 400, 401}

OcrPageCounts == {0, 1, 3}

OcrMargins == {0, 1}

LetterRun == [ n \in OcrLetterCounts |-> Rep("A", n) ]

DigitRun == [ n \in OcrDigitCounts |-> Rep("7", n) ]

OcrInputs ==
    { [kind |-> "pdf_text", filename |-> "",
       lead |-> l, letters |-> a, digits |-> d, trail |-> t, page_count |-> p,
       text |-> Rep(" ", l) \o LetterRun[a] \o DigitRun[d] \o Rep("\n", t)] :
         l \in OcrMargins, a \in OcrLetterCounts, d \in OcrDigitCounts,
         t \in OcrMargins, p \in OcrPageCounts }

InitOcr ==
    /\ InitEmptyMemory
    /\ InitEmptyStore
    /\ db = NoDatabase
    /\ request = NoRequest /\ response = NoResponse /\ calls = <<>>
    /\ chats = 0 /\ csvUploads = 0
    /\ InitIdleSql
    /\ InitIdleLoop
    /\ upload \in OcrInputs
    /\ uploadOut = Returned("")

IsScanned ==
    /\ DOMAIN uploadOut = {"raised", "value"}
    /\ uploadOut' = [of |-> "is_scanned_pdf", raised |-> FALSE,
                     value |-> is_scanned_pdf(upload.text, upload.page_count)]
    /\ UNCHANGED <<upload, memoryVars, storeVars, chatVars, sqlVars, loopVars>>

NextOcr == IsScanned

SpecOcr == InitOcr /\ [][NextOcr]_vars

OcrDecided == upload.kind = "pdf_text" /\ "of" \in DOMAIN uploadOut

\* the criterion of the heuristic on a text of total characters, alpha of
\* them alphabetic, spread over pages pages (0: unknown)
NeedsOcrBy(total, alpha, pages) ==
    \/ total = 0
    \/ total < 300
    \/ (IF pages > 0 THEN total < 120 * pages ELSE total < 120)
    \/ 5 * alpha < total

\* C23: needsOCR(text, pageCount) is true if and only if the extracted text
\* has zero characters, or totalChars < 300, or charsPerPage < 120, or
\* alphabeticChars / totalChars < 0.2, the characters being counted on the
\* extracted text as it is
C23_NeedsOcrCriterion ==
    OcrDecided =>
        uploadOut.value = NeedsOcrBy(upload.lead + upload.letters + upload.digits + upload.trail,
                                     upload.letters, upload.page_count)

\* the extracted text without its leading and trailing whitespace: blank
\* margins around an empty body are all whitespace
StrippedChars == upload.letters + upload.digits

\* C23 as amended: ... the characters being counted on the extracted text
\* with its leading and trailing whitespace removed
C23_NeedsOcrCriterionStripped ==
    OcrDecided => uploadOut.value = NeedsOcrBy(StrippedChars, upload.letters, upload.page_count)

\* 500 letters on one page need no OCR; so do 300 letters followed by a
\* newline, and 299 letters followed by a newline need it
C23_Witness ==
    /\ OcrDecided
    /\ \/ (upload.letters = 500 /\ upload.digits = 0 /\ upload.page_count = 1
              /\ uploadOut.value = FALSE)
       \/ (upload.letters = 299 /\ upload.digits = 0 /\ upload.trail = 1
              /\ upload.page_count = 1 /\ uploadOut.value = TRUE)

(***************************************************************************)
(* Specification of the image analysis alone: analyze_image_with_retry on  *)
(* every sequence of outcomes of the vision backend                        *)
(***************************************************************************)

TransientErrors == {"503 Service Unavailable", "429 Resource exhausted"}

\* not-found, invalid-model and invalid-configuration errors
PermanentErrors ==
    {"404 models/vision is not found", "Requested entity was Not Found",
     "400 API key not valid", "400 Invalid model name"}

VisionOutcomes ==
    {Returned("a cat"), Returned("")}
        \cup { Raised(e) : e \in TransientErrors \cup PermanentErrors \cup {"500 Internal error"} }

Images == {[format |-> "PNG", size |-> <<64, 48>>]}

VisionInputs ==
    { [kind |-> "image", filename |-> "", image |-> i, gemini_model |-> TRUE,
       outcomes |-> <<a, b, c>>] : i \in Images, a \in VisionOutcomes, b \in VisionOutcomes,
                                   c \in VisionOutcomes }
        \cup { [kind |-> "image", filename |-> "", image |-> i, gemini_model |-> FALSE,
                outcomes |-> <<>>] : i \in Images }

InitVision ==
    /\ InitEmptyMemory
    /\ InitEmptyStore
    /\ db = NoDatabase
    /\ request = NoRequest /\ response = NoResponse /\ calls = <<>>
    /\ chats = 0 /\ csvUploads = 0
    /\ InitIdleSql
    /\ InitIdleLoop
    /\ upload \in VisionInputs
    /\ uploadOut = Returned("")

AnalyzeImage ==
    /\ "of" \notin DOMAIN uploadOut
    /\ \E out \in {analyze_image_with_retry(upload.image, upload.gemini_model, upload.outcomes)} :
          /\ uploadOut' = [of |-> "analyze_image_with_retry", raised |-> FALSE, value |-> out.text]
          /\ calls' = out.calls
    /\ UNCHANGED <<upload, memoryVars, storeVars, db, request, response, chats, csvUploads,
                   sqlVars, loopVars>>

NextVision == AnalyzeImage

SpecVision == InitVision /\ [][NextVision]_vars

Analyzed == upload.kind = "image" /\ "of" \in DOMAIN uploadOut

Attempts == CallsOf("generate_content")

IsFallbackDescription(text) == StartsWith(text, "Image uploaded: ")

\* C24: image analysis ends after at most 3 attempts and never raises: it
\* returns the text of the first successful attempt, after a rate-limit or
\* unavailable failure it sleeps 2 seconds and tries again while attempts
\* remain, and it returns the fallback description when no attempt succeeded
C24_AnalysisTerminates ==
    Analyzed =>
        /\ Cardinality(Attempts) <= 3
        /\ ~uploadOut.raised
        /\ \A i \in Attempts :
              /\ ~calls[i].raised => (i = Len(calls) /\ uploadOut.value = calls[i].ret)
              /\ (calls[i].raised /\ calls[i].ret \in TransientErrors) =>
                    /\ i < Len(calls) /\ calls[i + 1] = Call("time.sleep", "2")
                    /\ Cardinality({ j \in Attempts : j <= i }) < 3
                          => (i + 2 <= Len(calls) /\ calls[i + 2].op = "generate_content")
        /\ (\A i \in Attempts : calls[i].raised) => IsFallbackDescription(uploadOut.value)
        /\ \A i \in CallsOf("time.sleep") :
              i > 1 /\ calls[i - 1].raised /\ calls[i - 1].ret \in TransientErrors

\* two rate-limited attempts, each followed by the sleep, then the answer
C24_Witness ==
    /\ Analyzed
    /\ Cardinality(Attempts) = 3
    /\ Cardinality(CallsOf("time.sleep")) = 2
    /\ uploadOut.value = "a cat"

\* C29: after a permanent error of the vision backend (not found, invalid
\* model, invalid configuration) image analysis makes no further attempt and
\* returns the fallback description
C29_PermanentErrorStops ==
    Analyzed =>
        \A i \in Attempts :
            (calls[i].raised /\ calls[i].ret \in PermanentErrors)
                => (i = Len(calls) /\ IsFallbackDescription(uploadOut.value))

(***************************************************************************)
(* Specification of the ingestion: one image or PDF uploaded to a service  *)
(* with or without stored content                                          *)
(***************************************************************************)

\* collection.get and collection.add of the upload: all well, or add raises
IngestStoreOracles ==
    {[get_raises |-> FALSE, add_raises |-> FALSE], [get_raises |-> FALSE, add_raises |-> TRUE]}

IngestVisionOutcomes ==
    {Returned("a cat"), Returned("  "), Raised("503 Service Unavailable"),
     Raised("400 API key not valid")}

\* an image that PIL refuses, one analysed without a configured model, and
\* the images with every sequence of three outcomes of the vision backend
ImageFiles ==
    { [kind |-> "image", filename |-> "cat.png", openable |-> TRUE, image |-> i,
       gemini_model |-> TRUE, outcomes |-> <<a, b, c>>] :
          i \in Images, a \in IngestVisionOutcomes, b \in IngestVisionOutcomes,
          c \in IngestVisionOutcomes }
      \cup { [kind |-> "image", filename |-> "cat.png", openable |-> op, image |-> i,
              gemini_model |-> FALSE, outcomes |-> <<>>] : op \in BOOLEAN, i \in Images }

SizeCeiling == MAX_PDF_SIZE_MB * BytesPerMB

PdfSizes == {1024, SizeCeiling, SizeCeiling + 1}

\* the page contents PyPDFLoader gives: no page, blank pages, a short text
\* (a scan with a stamp), a page of 300 letters, a page of 40 blanks and a
\* page of 40 letters
PdfPages ==
    { <<>>, <<"">>, <<"  ">>, <<"", "">>, <<"stamp">>, <<Rep("A", 300)>>,
      <<Rep(" ", 40)>>, <<Rep("B", 40)>> }

\* what the vision backend reads on the pages, or that the OCR fails
OcrResults(pages) ==
    { Raised("OCR failed") }
        \cup { Returned([ n \in 1..Len(pages) |-> t ]) : t \in {"", " ", "scanned text"} }

\* PDF files: one that PyPDFLoader refuses, oversized ones, and the page
\* contents with and without the OCR client
PdfFiles ==
    { [kind |-> "pdf", filename |-> "doc.pdf", size |-> z, loads |-> FALSE, pages |-> <<>>,
       groq_vision_client |-> FALSE, ocr |-> Raised("")] : z \in PdfSizes }
      \cup { [kind |-> "pdf", filename |-> "doc.pdf", size |-> z, loads |-> TRUE, pages |-> pg,
              groq_vision_client |-> FALSE, ocr |-> Raised("")] : z \in PdfSizes, pg \in PdfPages }
      \cup UNION { { [kind |-> "pdf", filename |-> "doc.pdf", size |-> z, loads |-> TRUE,
                      pages |-> pg, groq_vision_client |-> TRUE, ocr |-> r] :
                        z \in PdfSizes, r \in OcrResults(pg) } : pg \in PdfPages }

\* the names the uploaded files carry
IngestSources == {"cat.png", "doc.pdf"}

\* collections of which one already holds a chunk of a file of such a name
Holding(m, source) ==
    [SeededCollections EXCEPT
        ![m] = Append(@, [id |-> 2, document |-> "earlier " \o source, source |-> source])]

HoldingCollections == { Holding(m, source) : m \in {"image", "pdf"}, source \in IngestSources }

InitIngest ==
    /\ InitEmptyMemory
    /\ collections \in {EmptyCollections, SeededCollections} \cup HoldingCollections
    /\ uuidCount = 0
    /\ storeLog = <<>>
    /\ db = NoDatabase
    /\ request = NoRequest /\ response = NoResponse /\ calls = <<>>
    /\ chats = 0 /\ csvUploads = 0
    /\ InitIdleSql
    /\ InitIdleLoop
    /\ InitIdleIngest

UploadImage ==
    /\ "of" \notin DOMAIN uploadOut
    /\ \E file \in ImageFiles, o \in IngestStoreOracles : upload_image(file, o)

UploadPdf ==
    /\ "of" \notin DOMAIN uploadOut
    /\ \E file \in PdfFiles, o \in IngestStoreOracles : upload_pdf(file, o)

NextIngest == UploadImage \/ UploadPdf

SpecIngest == InitIngest /\ [][NextIngest]_vars

UploadHandled == "of" \in DOMAIN uploadOut /\ upload.kind \in {"image", "pdf"}

\* the vision backend answered the image with no text
ImageWithoutText ==
    /\ upload.kind = "image"
    /\ \E i \in CallsOf("generate_content") : ~calls[i].raised /\ Strip(calls[i].ret) = ""

AllBlank(texts) == \A n \in 1..Len(texts) : Strip(texts[n]) = ""

\* a PDF within the size limit whose pages carry no text and for which the
\* OCR is unavailable, fails, or reads no text on any page
PdfWithoutText ==
    /\ upload.kind = "pdf" /\ upload.size <= SizeCeiling /\ upload.loads
    /\ AllBlank(upload.pages)
    /\ \/ ~upload.groq_vision_client
       \/ upload.ocr.raised
       \/ AllBlank(upload.ocr.value)

\* C25: if image analysis yields no text, or PDF extraction yields no text
\* after all fallbacks, the upload fails with an error and no chunk is added
\* to the collection
C25_NoTextFailsIngestion ==
    [][(UploadHandled /\ (ImageWithoutText \/ PdfWithoutText))'
          => (uploadOut'.raised /\ collections' = collections)]_vars

TooLarge == "PDF too large (> 30 MB)"

\* C26: a PDF whose byte size exceeds the configured ceiling is rejected
\* before any processing (no temporary file, no parsing, no OCR call, no
\* chunk insertion); a PDF whose size is at most the ceiling is never
\* rejected for its size
C26_OversizedPdfRejected ==
    [][(UploadHandled /\ upload.kind = "pdf")'
          => IF upload'.size > 30 * 1024 * 1024
             THEN /\ uploadOut' = [of |-> "upload_pdf", raised |-> TRUE, value |-> TooLarge]
                  /\ calls' = <<>>
                  /\ collections' = collections /\ uuidCount' = uuidCount
             ELSE /\ ~(uploadOut'.raised /\ uploadOut'.value = TooLarge)
                  /\ calls' # <<>>]_vars

\* a readable PDF one byte over the ceiling was rejected by a service with
\* stored content, and nothing was called
C26_Witness ==
    /\ UploadHandled /\ upload.kind = "pdf"
    /\ upload.size = 30 * 1024 * 1024 + 1 /\ upload.loads /\ upload.pages # <<>>
    /\ uploadOut.raised /\ uploadOut.value = TooLarge
    /\ calls = <<>> /\ collections = SeededCollections

\* a PDF upload that reached the choice of the text
PdfParsed == UploadHandled /\ upload.kind = "pdf" /\ CallsOf("is_scanned_pdf") # {}

ParserText == Join(upload.pages, "\n\n")

OcrText == extract_text_with_ocr(upload)

OcrRun == CallsOf("extract_text_with_ocr") # {}

\* the text handed to chunk_and_store, "" when the upload stored nothing
ChunkedText ==
    IF CallsOf("chunk_and_store") = {} THEN ""
    ELSE calls[CHOOSE i \in CallsOf("chunk_and_store") : TRUE].arg

\* C31: PDF ingestion runs the OCR only when needsOCR is true and an OCR
\* backend is configured, and the OCR text is what is chunked and stored only
\* when it has strictly more characters than the parser extraction; in every
\* other case the parser extraction is what is chunked and stored
C31_OcrAdoptedWhenLonger ==
    PdfParsed =>
        /\ OcrRun => (is_scanned_pdf(ParserText, Len(upload.pages)) /\ upload.groq_vision_client)
        /\ CallsOf("chunk_and_store") # {} =>
               ChunkedText = IF OcrRun /\ Len(OcrText) > Len(ParserText)
                             THEN OcrText ELSE ParserText

\* C31 as amended: ... the OCR is run exactly when needsOCR is true and an
\* OCR backend is configured, and its text is adopted when, with the
\* surrounding whitespace of both texts left aside, it has strictly more
\* characters than the parser extraction; a blank text is refused, not stored
C31_OcrAdoptedWhenLongerTrimmed ==
    PdfParsed =>
        /\ OcrRun <=> (is_scanned_pdf(ParserText, Len(upload.pages)) /\ upload.groq_vision_client)
        /\ LET adopted == OcrRun /\ Len(Strip(OcrText)) > Len(Strip(ParserText))
               text == IF adopted THEN OcrText ELSE ParserText
           IN  IF Strip(text) = ""
               THEN CallsOf("chunk_and_store") = {} /\ uploadOut.raised
               ELSE Cardinality(CallsOf("chunk_and_store")) = 1 /\ ChunkedText = text

\* a scan with a stamp: the OCR read more than the parser and its text was
\* stored
C31_Witness ==
    /\ PdfParsed /\ upload.pages = <<"stamp">>
    /\ OcrRun /\ ~upload.ocr.raised /\ upload.ocr.value = <<"scanned text">>
    /\ ChunkedText = "--- Page 1 ---\nscanned text"
    /\ ~uploadOut.raised
    /\ Len(collections["pdf"]) > 0
    /\ collections["pdf"][Len(collections["pdf"])].document = "--- Page 1 ---\nscanned text"

\* the response of a PDF upload came back and its ocr_used flag is true
OcrFlagged == "ocr_used" \in uploadOut.value.keys /\ uploadOut.value.ocr_used

\* the upload added chunks and their text is the output of the OCR
OcrStored ==
    /\ OcrRun /\ ~uploadOut.value.duplicate
    /\ CallsOf("chunk_and_store") # {} /\ ChunkedText = OcrText

\* C38: the ocr_used flag of a PDF upload response is true exactly when the
\* stored text is the OCR output; it is false when the OCR was not run, when
\* it failed, and when its output was not adopted
C38_OcrFlagTellsStoredText ==
    (PdfParsed /\ ~uploadOut.raised) => (OcrFlagged <=> OcrStored)

(***************************************************************************)
(* Specification of the CSV ingestion alone: any sequence of /upload_csv   *)
(* calls                                                                   *)
(***************************************************************************)

MaxTableUploads == 3

TableFilenames ==
    {"My Data-2024.csv", "my_data_2024.csv", "Users.csv", "data.CSV", "Sales (Q1)!.csv",
     "x.csv.csv", ".csv"}

DataFrames ==
    {[columns |-> <<"name", "age">>, rows |-> << <<"ann", "30">>, <<"bob", "25">> >>],
     [columns |-> <<"name">>, rows |-> << <<"cy">> >>]}

TableFiles ==
    { [filename |-> n, parsed |-> TRUE, columns |-> df.columns, rows |-> df.rows] :
          n \in TableFilenames, df \in DataFrames }
      \cup {[filename |-> "broken.csv", parsed |-> FALSE, columns |-> <<>>, rows |-> <<>>]}

InitCsv ==
    /\ InitEmptyMemory
    /\ InitEmptyStore
    /\ db = NoDatabase
    /\ InitIdleChat
    /\ InitIdleSql

UploadTable ==
    /\ csvUploads < MaxTableUploads
    /\ \E file \in TableFiles : upload_csv(file)

NextCsv == UploadTable

SpecCsv == InitCsv /\ [][NextCsv]_vars

CsvHandled == upload.kind = "csv" /\ "of" \in DOMAIN uploadOut

CsvStored == CsvHandled /\ ~uploadOut.raised

MatchesTablePattern(name) ==
    \A i \in 1..Len(name) : Ch(name, i) \in CharsOf("abcdefghijklmnopqrstuvwxyz0123456789_")

\* the rule of the derivation applied to one character
DerivedChar(c) ==
    IF c \in CharsOf("ABCDEFGHIJKLMNOPQRSTUVWXYZ")
    THEN Ch("abcdefghijklmnopqrstuvwxyz",
            CHOOSE i \in 1..26 : Ch("ABCDEFGHIJKLMNOPQRSTUVWXYZ", i) = c)
    ELSE IF c \in {" ", "-"} THEN "_"
    ELSE IF c \in CharsOf("abcdefghijklmnopqrstuvwxyz0123456789_") THEN c
    ELSE ""

RECURSIVE DerivedFrom(_)
DerivedFrom(stem) == IF stem = "" THEN "" ELSE DerivedChar(Head(stem)) \o DerivedFrom(Tail(stem))

\* the filename ends with its only ".csv"
PlainCsvName(n) ==
    /\ Len(n) >= 4 /\ SubSeq(n, Len(n) - 3, Len(n)) = ".csv"
    /\ ~Contains(SubSeq(n, 1, Len(n) - 4), ".csv")

\* C27: the derived table name is a function of the filename and matches
\* ^[a-z0-9_]*$: lower-cased, spaces and hyphens turned into underscores,
\* every other character stripped; "My Data-2024.csv" gives "my_data_2024"
C27_TableNameDerived ==
    [][CsvHandled' =>
          /\ MatchesTablePattern(SanitizedTableName(upload'.filename))
          /\ (CsvHandled /\ upload.filename = upload'.filename /\ CsvStored /\ CsvStored')
                => uploadOut'.value.table = uploadOut.value.table
          /\ CsvStored' =>
                /\ uploadOut'.value.table = SanitizedTableName(upload'.filename)
                /\ uploadOut'.value.table \in TableNames(db')
                /\ MatchesTablePattern(uploadOut'.value.table)
                /\ PlainCsvName(upload'.filename) =>
                      uploadOut'.value.table
                          = DerivedFrom(SubSeq(upload'.filename, 1, Len(upload'.filename) - 4))
                /\ upload'.filename = "My Data-2024.csv"
                      => uploadOut'.value.table = "my_data_2024"]_vars

\* "Sales (Q1)!.csv" was stored as the table sales_q1
C27_Witness ==
    /\ CsvStored
    /\ upload.filename = "Sales (Q1)!.csv"
    /\ uploadOut.value.table = "sales_q1"
    /\ "sales_q1" \in TableNames(db)

TablesBut(d, name) == { d.tables[i] : i \in { j \in 1..Len(d.tables) : d.tables[j].name # name } }

\* C28: an accepted CSV upload replaces the table of the derived name
\* wholesale: afterwards that table holds exactly the columns and rows of
\* the uploaded CSV, nothing of an earlier upload, and every other table is
\* unchanged
C28_TableReplaced ==
    [][CsvStored' =>
          LET t == uploadOut'.value.table
          IN  /\ Cardinality({ i \in 1..Len(db'.tables) : db'.tables[i].name = t }) = 1
              /\ TableNamed(db', t).columns = upload'.columns
              /\ TableNamed(db', t).rows = upload'.rows
              /\ TablesBut(db', t) = TablesBut(db, t)]_vars

\* the table my_data_2024, first created with two columns and two rows, now
\* holds the one column and one row of the later upload beside another table
C28_Witness ==
    /\ CsvStored /\ csvUploads = 3
    /\ uploadOut.value.table = "my_data_2024"
    /\ upload.filename = "my_data_2024.csv"
    /\ TableNamed(db, "my_data_2024").columns = <<"name">>
    /\ TableNamed(db, "my_data_2024").rows = << <<"cy">> >>
    /\ Len(db.tables) = 2 /\ "users" \in TableNames(db)

(***************************************************************************)
(* main.py: the handlers on the event loop                                 *)
(*                                                                         *)
(* uvicorn.run(app) serves every request in one process on one event loop  *)
(* thread.  Every handler is an async def, so it runs as a coroutine on    *)
(* that thread and leaves it only at an await.  chat holds no await; the   *)
(* upload handlers await file.read() and then their process_* coroutine,   *)
(* which holds no await of its own.  The clients of the backends are the   *)
(* synchronous ones and time.sleep is the blocking sleep: the thread stays *)
(* inside the call until it returns.                                       *)
(***************************************************************************)

\* the most requests in flight
MaxTasks == 3

\* exchanges of earlier requests that the memory may hold at the start
PriorExchanges == 4

Handlers == {"chat", "upload"}

Message(id) == "q" \o ToString(id)

Reply(id) == "a" \o ToString(id)

\* the requests served before the first one in flight are numbered from 101
PriorIds == { 100 + k : k \in 1..PriorExchanges }

RECURSIVE PriorMemory(_)
PriorMemory(k) ==
    IF k = 0 THEN <<>>
    ELSE PriorMemory(k - 1) \o <<Entry("user", Message(100 + k)), Entry("assistant", Reply(100 + k))>>

loopFrame == <<storeVars, db, request, response, calls, chats, csvUploads, sqlVars, ingestVars>>

InitLoop ==
    /\ chat_memory \in {<<>>, PriorMemory(PriorExchanges)}
    /\ appended = chat_memory
    /\ InitEmptyStore
    /\ db = NoDatabase
    /\ InitIdleChat
    /\ InitIdleSql

TaskIds == 1..Len(tasks)

At(t, pc) == [tasks EXCEPT ![t].pc = pc]

\* a request arrives: its handler's coroutine is scheduled on the loop;
\* yields counts the times the coroutine gave the thread back at an await
Accept(h) ==
    /\ Len(tasks) < MaxTasks
    /\ tasks' = Append(tasks, [handler |-> h, pc |-> "ready", yields |-> 0])
    /\ UNCHANGED <<running, memoryVars, loopFrame>>

\* the loop, with no coroutine on its thread, starts a scheduled handler
Start(t) ==
    /\ running = 0
    /\ tasks[t].pc = "ready"
    /\ tasks' = At(t, IF tasks[t].handler = "chat" THEN "call" ELSE "read")
    /\ running' = t
    /\ UNCHANGED <<memoryVars, loopFrame>>

\* await file.read() of an upload handler: the bytes are at hand and the
\* coroutine goes on, or it is suspended and the thread goes back to the loop
Read(t) ==
    /\ running = t
    /\ tasks[t].pc = "read"
    /\ \/ /\ tasks' = At(t, "call")
          /\ running' = running
       \/ /\ tasks' = [tasks EXCEPT ![t].pc = "reading", ![t].yields = @ + 1]
          /\ running' = 0
    /\ UNCHANGED <<memoryVars, loopFrame>>

\* the read a suspended upload handler awaits completes
ReadDone(t) ==
    /\ tasks[t].pc = "reading"
    /\ tasks' = At(t, "call")
    /\ UNCHANGED <<running, memoryVars, loopFrame>>

\* the loop, with no coroutine on its thread, resumes a suspended coroutine
\* whose await has completed
Resume(t) ==
    /\ running = 0
    /\ tasks[t].pc \in {"call", "remember_user", "remember_assistant"}
    /\ running' = t
    /\ UNCHANGED <<tasks, memoryVars, loopFrame>>

\* the handler calls a backend through its synchronous client (or sleeps
\* between two attempts): the thread is inside the call
BackendCall(t) ==
    /\ running = t
    /\ tasks[t].pc = "call"
    /\ tasks' = At(t, "waiting")
    /\ UNCHANGED <<running, memoryVars, loopFrame>>

\* the call returns.  chat goes on to remember_exchange when it has a reply
\* and returns its error otherwise; an upload handler returns
BackendReturn(t) ==
    /\ running = t
    /\ tasks[t].pc = "waiting"
    /\ \/ /\ tasks[t].handler = "chat"
          /\ tasks' = At(t, "remember_user")
          /\ running' = running
       \/ /\ tasks' = At(t, "done")
          /\ running' = 0
    /\ UNCHANGED <<memoryVars, loopFrame>>

\* a remember_exchange that awaits between its two appends
ThreadAfterAppend_awaiting(t) == 0

\* the coroutine on the thread after the first append of remember_exchange:
\* a plain function call without await, the handler keeps the thread
ThreadAfterAppend(t) == t

\* chat_memory.append({"role": "user", ...})
AppendUser(t) ==
    /\ running = t
    /\ tasks[t].pc = "remember_user"
    /\ chat_memory' = DequeAppend(chat_memory, Entry("user", Message(t)))
    /\ appended' = Append(appended, Entry("user", Message(t)))
    /\ tasks' = At(t, "remember_assistant")
    /\ running' = ThreadAfterAppend(t)
    /\ UNCHANGED loopFrame

\* chat_memory.append({"role": "assistant", ...}), and chat returns
AppendAssistant(t) ==
    /\ running = t
    /\ tasks[t].pc = "remember_assistant"
    /\ chat_memory' = DequeAppend(chat_memory, Entry("assistant", Reply(t)))
    /\ appended' = Append(appended, Entry("assistant", Reply(t)))
    /\ tasks' = At(t, "done")
    /\ running' = 0
    /\ UNCHANGED loopFrame

NextLoop ==
    \/ \E h \in Handlers : Accept(h)
    \/ \E t \in TaskIds : Start(t)
    \/ \E t \in TaskIds : Read(t)
    \/ \E t \in TaskIds : ReadDone(t)
    \/ \E t \in TaskIds : Resume(t)
    \/ \E t \in TaskIds : BackendCall(t)
    \/ \E t \in TaskIds : BackendReturn(t)
    \/ \E t \in TaskIds : AppendUser(t)
    \/ \E t \in TaskIds : AppendAssistant(t)

SpecLoop == InitLoop /\ [][NextLoop]_vars

InFlight(t) == tasks[t].pc # "done"

ExchangeIds == PriorIds \cup TaskIds

\* the entry at an odd position k of the history is some request's user entry
\* and the next entry, once appended, is the same request's assistant entry
ExchangeAt(k) ==
    \E id \in ExchangeIds :
        /\ appended[k] = Entry("user", Message(id))
        /\ k + 1 <= Len(appended) => appended[k + 1] = Entry("assistant", Reply(id))

InRemember == { t \in TaskIds : tasks[t].pc \in {"remember_user", "remember_assistant"} }

\* C21: remember calls of requests in flight together are serialized: at
\* most one request is inside remember_exchange, the user entry and the
\* assistant entry of one exchange are next to each other in the memory with
\* no entry of another request between them, and the memory holds at most
\* MemoryMaxLen entries, the latest ones, in every state, the one between
\* the two appends included.
C21_RememberSerialized ==
    /\ Cardinality(InRemember) <= 1
    /\ \A k \in 1..Len(appended) : k % 2 = 1 => ExchangeAt(k)
    /\ Len(appended) % 2 = 1 =>
           /\ running \in TaskIds
           /\ tasks[running].pc = "remember_assistant"
           /\ appended[Len(appended)] = Entry("user", Message(running))
    /\ Len(chat_memory) <= MemoryMaxLen
    /\ chat_memory = SubSeq(appended,
                            IF Len(appended) > MemoryMaxLen
                            THEN Len(appended) - MemoryMaxLen + 1 ELSE 1,
                            Len(appended))

\* a chat request is between its two appends with the memory full, after
\* another chat request that was in flight with it, and a third request
\* waits for the loop
C21_Witness ==
    /\ Len(appended) = 2 * PriorExchanges + 3
    /\ Len(chat_memory) = MemoryMaxLen
    /\ Len(tasks) = 3
    /\ tasks[1].pc = "remember_assistant" /\ running = 1
    /\ tasks[2].pc = "done" /\ tasks[2].handler = "chat"
    /\ tasks[3].pc \in {"ready", "call"}
    /\ appended[Len(appended) - 1] = Entry("assistant", Reply(2))

\* a request's backend call is pending
BackendPending == \E t \in TaskIds : tasks[t].pc = "waiting"

\* another request in flight could go on if the loop gave it the thread
OthersRunnable ==
    \E t \in TaskIds : tasks[t].pc \in {"ready", "call"} /\ running # t

\* the loop gives the thread to a request
Serve == \E t \in TaskIds : Start(t) \/ Resume(t)

\* C22: while the backend call of one request is pending, another request in
\* flight that is ready to run is given the thread.
C22_OthersProgress ==
    (BackendPending /\ OthersRunnable) => ENABLED Serve

(***************************************************************************)
(* Specification of the retrieval alone: one retrieve_context call on a    *)
(* collection                                                              *)
(***************************************************************************)

\* the largest collection retrieved from
MaxRetrieveChunks == 6

\* the n_results asked for; 5 is the default every caller uses
RetrieveSizes == {1, 2, 3, 5}

RetrieveQueries == {"who?", "what is on page 2?"}

RetrieveOracles == [count_raises : BOOLEAN, query_raises : BOOLEAN]

\* a video collection of n chunks
ChunksUpTo(n) ==
    [ i \in 1..n |-> [id |-> i, document |-> "chunk " \o ToString(i), source |-> "talk.mp4"] ]

InitRetrieve ==
    /\ InitEmptyMemory
    /\ \E n \in 0..MaxRetrieveChunks :
           collections = [EmptyCollections EXCEPT !["video"] = ChunksUpTo(n)]
    /\ uuidCount = 0 /\ storeLog = <<>>
    /\ db = NoDatabase
    /\ InitIdleChat
    /\ InitIdleSql

Retrieve ==
    /\ "of" \notin DOMAIN uploadOut
    /\ \E q \in RetrieveQueries, k \in RetrieveSizes, o \in RetrieveOracles :
         \E out \in {RetrieveContext(collections["video"], q, k, o)} :
            /\ upload' = [kind |-> "query", filename |-> "", query |-> q, n_results |-> k,
                          count_raises |-> o.count_raises]
            /\ uploadOut' = [of |-> "retrieve_context", raised |-> FALSE, value |-> out.ret]
            /\ calls' = out.calls
    /\ UNCHANGED <<memoryVars, storeVars, db, request, response, chats, csvUploads,
                   sqlVars, loopVars>>

NextRetrieve == Retrieve

SpecRetrieve == InitRetrieve /\ [][NextRetrieve]_vars

RetrieveDone == upload.kind = "query" /\ "of" \in DOMAIN uploadOut

Searches == CallsOf("collection.query")

\* the count of the collection retrieved from
ChunkCount == Len(collections["video"])

\* one search was issued, for n neighbours, and what is returned is the texts
\* it gave joined by a blank line
SearchedFor(n) ==
    /\ Cardinality(Searches) = 1
    /\ \A i \in Searches :
          /\ calls[i].arg = upload.query
          /\ calls[i].n_results = n
          /\ uploadOut.value = Join(calls[i].documents, "\n\n")

\* C32: retrieve(query, collection, k) returns the empty string when the
\* collection is empty (count = 0), without issuing a search; otherwise it
\* asks for exactly min(k, count) neighbours and returns the retrieved texts
\* joined by a blank line
C32_RetrieveCapped ==
    RetrieveDone =>
        IF ChunkCount = 0
        THEN uploadOut.value = "" /\ Searches = {}
        ELSE SearchedFor(IF upload.n_results < ChunkCount THEN upload.n_results ELSE ChunkCount)

\* C32 as amended: ... when the count of the collection can be read; when
\* reading the count fails the empty string is returned and no search is
\* issued, and when the search fails the empty string is returned
C32_RetrieveCappedWhenCounted ==
    RetrieveDone =>
        IF ChunkCount = 0 \/ upload.count_raises
        THEN uploadOut.value = "" /\ Searches = {}
        ELSE /\ SearchedFor(IF upload.n_results < ChunkCount THEN upload.n_results ELSE ChunkCount)
             /\ (\E i \in Searches : calls[i].raised) => uploadOut.value = ""

\* five neighbours were asked of a collection of six chunks and their texts
\* came back joined by blank lines
C32_Witness ==
    /\ RetrieveDone /\ ChunkCount = 6 /\ upload.n_results = 5
    /\ \E i \in Searches : calls[i].n_results = 5 /\ Len(calls[i].documents) = 5
    /\ uploadOut.value = "chunk 1\n\nchunk 2\n\nchunk 3\n\nchunk 4\n\nchunk 5"

(***************************************************************************)
(* Specification of the prompt building: build_messages_with_context       *)
(* called between remember_exchange calls                                  *)
(***************************************************************************)

\* the system prompts handed over; "" stands for None and for the empty
\* string, which the code treats alike
SystemPrompts == {"", "Answer ONLY from the transcript."}

PromptMessages == {"who?"}

BuildPrompt ==
    \E m \in PromptMessages, sp \in SystemPrompts :
        /\ upload' = [kind |-> "prompt", filename |-> "", user_message |-> m, system_prompt |-> sp]
        /\ uploadOut' = [of |-> "build_messages_with_context", raised |-> FALSE,
                         value |-> build_messages_with_context(chat_memory, m, sp)]
        /\ UNCHANGED <<memoryVars, storeVars, chatVars, sqlVars, loopVars>>

NextPrompt == Remember \/ BuildPrompt

SpecPrompt == InitMemory /\ [][NextPrompt]_vars

PromptBuilt == upload.kind = "prompt" /\ "of" \in DOMAIN uploadOut

\* the messages of prompt p from position k on are the entries of the
\* memory mem, in their order, followed by one user message
ContextThenMessage(p, k, mem, m) ==
    /\ Len(p) = k + Len(mem)
    /\ \A i \in 1..Len(mem) : p[k - 1 + i] = mem[i]
    /\ p[Len(p)] = [role |-> "user", content |-> m]

\* C34: buildPrompt(userMessage, systemPrompt?) returns, in order, the
\* system message (only when a system prompt is given), then the entries of
\* the context window in insertion order, then the new user message as the
\* last element, and does not modify the conversation memory
C34_PromptOrder ==
    [][(PromptBuilt' /\ ingestVars' # ingestVars) =>
          /\ IF upload'.system_prompt # ""
             THEN /\ uploadOut'.value[1] = [role |-> "system", content |-> upload'.system_prompt]
                  /\ ContextThenMessage(uploadOut'.value, 2, chat_memory, upload'.user_message)
             ELSE ContextThenMessage(uploadOut'.value, 1, chat_memory, upload'.user_message)
          /\ chat_memory' = chat_memory /\ appended' = appended]_vars

\* a prompt with a system message was built on a full memory from which the
\* first exchange had been evicted
C34_Witness ==
    /\ PromptBuilt /\ upload.system_prompt # ""
    /\ Len(appended) = 12 /\ Len(chat_memory) = 10
    /\ Len(uploadOut.value) = 12
    /\ uploadOut.value[1].role = "system"
    /\ uploadOut.value[2] = appended[3]
    /\ uploadOut.value[11] = appended[12]
    /\ uploadOut.value[12] = [role |-> "user", content |-> upload.user_message]

(***************************************************************************)
(* Specification of uploads in flight together: /upload_video and          *)
(* /upload_audio requests of a few file names on the event loop            *)
(***************************************************************************)

\* the most uploads in flight
MaxUploads == 2

UploadHandlers == {"upload_video", "upload_audio"}

\* the collection each upload handler passes to its process_* coroutine
CollectionOf(h) == IF h = "upload_video" THEN "video" ELSE "audio"

UploadNames == {"talk.mp4", "news.mp4"}

\* the text the transcription gives for a file
Transcript(name) == "words spoken in " \o name

\* lines 27-35 of chunk_and_store: the lookup answers and finds the source
FoundInCollection(col, source, o) ==
    source # "" /\ ~o.get_raises /\ GetBySource(col, source) # {}

\* lines 37-52 of chunk_and_store: the text is split, tagged and added
AddChunks(text, col, source, chunk_size, chunk_overlap, ids, o) ==
    chunk_and_store(text, col, source, chunk_size, chunk_overlap, ids,
                    [get_raises |-> TRUE, add_raises |-> o.add_raises])

InitUploads ==
    /\ InitEmptyMemory
    /\ InitEmptyStore
    /\ db = NoDatabase
    /\ InitIdleChat
    /\ InitIdleSql

\* an upload request arrives; lookup will tell how its collection.get went
\* and added counts the chunks it inserted
AcceptUpload(h, name) ==
    /\ Len(tasks) < MaxUploads
    /\ tasks' = Append(tasks, [handler |-> h, pc |-> "ready", yields |-> 0, source |-> name,
                               lookup |-> "none", added |-> 0, result |-> "none"])
    /\ UNCHANGED <<running, memoryVars, loopFrame>>

\* the loop, with no coroutine on its thread, resumes a suspended upload
ResumeUpload(t) ==
    /\ running = 0
    /\ tasks[t].pc \in {"call", "add"}
    /\ running' = t
    /\ UNCHANGED <<tasks, memoryVars, loopFrame>>

\* groq_client.audio.transcriptions.create returns the transcript, and
\* process_video goes on to chunk_and_store on the same thread, or it raises
\* and the handler answers with the HTTP 500 response
Transcribed(t) ==
    /\ running = t
    /\ tasks[t].pc = "waiting"
    /\ \/ /\ tasks' = At(t, "lookup")
          /\ running' = running
       \/ /\ tasks' = [tasks EXCEPT ![t].pc = "done", ![t].result = "error"]
          /\ running' = 0
    /\ UNCHANGED <<memoryVars, loopFrame>>

\* an upload that awaits between the lookup and the add of chunk_and_store
ThreadAfterLookup_awaiting(t) == 0

\* the coroutine on the thread after the lookup of chunk_and_store: a plain
\* function without await, the handler keeps the thread up to the add
ThreadAfterLookup(t) == t

\* collection.get(where={"source": source}) of chunk_and_store answers or
\* raises: a source found is a duplicate and the handler returns
Lookup(t) ==
    /\ running = t
    /\ tasks[t].pc = "lookup"
    /\ \E get_raises \in BOOLEAN :
          IF FoundInCollection(collections[CollectionOf(tasks[t].handler)], tasks[t].source,
                               [get_raises |-> get_raises])
          THEN /\ tasks' = [tasks EXCEPT ![t].pc = "done", ![t].lookup = "answered",
                                         ![t].result = "duplicate"]
               /\ running' = 0
          ELSE /\ tasks' = [tasks EXCEPT ![t].pc = "add",
                                         ![t].lookup = IF get_raises THEN "raised"
                                                       ELSE "answered"]
               /\ running' = ThreadAfterLookup(t)
    /\ UNCHANGED <<memoryVars, loopFrame>>

\* the split and collection.add of chunk_and_store, and the handler returns
Add(t) ==
    /\ running = t
    /\ tasks[t].pc = "add"
    /\ \E add_raises \in BOOLEAN :
       \E r \in {AddChunks(Transcript(tasks[t].source),
                           collections[CollectionOf(tasks[t].handler)], tasks[t].source,
                           1000, 200, uuidCount, [add_raises |-> add_raises])} :
          /\ collections' = [collections EXCEPT ![CollectionOf(tasks[t].handler)] = r.col]
          /\ uuidCount' = uuidCount + r.ids
          /\ tasks' = [tasks EXCEPT ![t].pc = "done",
                                    ![t].result = IF r.ret.raised THEN "error" ELSE "stored",
                                    ![t].added = IF r.ret.raised THEN 0 ELSE r.ret.value[1]]
    /\ running' = 0
    /\ UNCHANGED <<storeLog, memoryVars, db, request, response, calls, chats, csvUploads,
                   sqlVars, ingestVars>>

NextUploads ==
    \/ \E h \in UploadHandlers, name \in UploadNames : AcceptUpload(h, name)
    \/ \E t \in TaskIds : Start(t)
    \/ \E t \in TaskIds : Read(t)
    \/ \E t \in TaskIds : ReadDone(t)
    \/ \E t \in TaskIds : ResumeUpload(t)
    \/ \E t \in TaskIds : BackendCall(t)
    \/ \E t \in TaskIds : Transcribed(t)
    \/ \E t \in TaskIds : Lookup(t)
    \/ \E t \in TaskIds : Add(t)

SpecUploads == InitUploads /\ [][NextUploads]_vars

\* the uploads of the file name into the collection of modality m
UploadsOf(m, name) ==
    { t \in TaskIds : CollectionOf(tasks[t].handler) = m /\ tasks[t].source = name }

\* those of them that inserted chunks
Inserters(m, name) == { t \in UploadsOf(m, name) : tasks[t].added > 0 }

\* C39: under any interleaving of uploads of the same source into the same
\* collection that are in flight together, at most one of them inserts
\* chunks: the collection never holds chunks from two ingestions of one
\* source
C39_OneIngestionPerSource ==
    \A m \in Modalities, name \in UploadNames :
        /\ Cardinality(Inserters(m, name)) <= 1
        /\ Cardinality(GetBySource(collections[m], name)) <= 1

\* C39 as amended: ... at most one of the uploads whose duplicate lookup
\* answered inserts chunks, and it is the first to insert; the collection
\* holds chunks of a second ingestion of the source only from an upload whose
\* duplicate lookup raised
C39_OneIngestionPerSourceLookedUp ==
    \A m \in Modalities, name \in UploadNames :
        /\ Cardinality({ t \in Inserters(m, name) : tasks[t].lookup = "answered" }) <= 1
        /\ Cardinality(GetBySource(collections[m], name))
               <= 1 + Cardinality({ t \in Inserters(m, name) : tasks[t].lookup = "raised" })
        /\ \A t \in UploadsOf(m, name) :
               (tasks[t].pc = "add" /\ tasks[t].lookup = "answered")
                   => (running = t /\ GetBySource(collections[m], name) = {})

\* two uploads of one video were suspended in their reads together; the
\* second to arrive stored its chunk and the first, resumed after it, was
\* answered as a duplicate
C39_Witness ==
    /\ Len(tasks) = 2
    /\ \A t \in TaskIds :
           /\ tasks[t].handler = "upload_video" /\ tasks[t].source = "talk.mp4"
           /\ tasks[t].lookup = "answered" /\ tasks[t].yields = 1 /\ tasks[t].pc = "done"
    /\ tasks[2].result = "stored" /\ tasks[2].added = 1
    /\ tasks[1].result = "duplicate"
    /\ Len(collections["video"]) = 1
    /\ collections["video"][1].document = Transcript("talk.mp4")

(***************************************************************************)
(* Specification of the four collections: uploads of every modality under  *)
(* the same file names, and chats in the four document modes               *)
(***************************************************************************)

\* the most chunk ids drawn by the uploads
MaxSharedIds == 2

\* the most chat requests
MaxSharedChats == 1

\* the file names the uploads of every modality carry
SharedNames == {"talk.mp4", "doc.pdf"}

\* a video or audio file whose transcription answers
MediaFiles(kind) ==
    { [kind |-> kind, filename |-> name, transcript |-> Returned("words spoken in " \o kind)] :
        name \in SharedNames }

\* an image the vision backend describes at once
SharedImageFiles ==
    { [kind |-> "image", filename |-> name, openable |-> TRUE, image |-> i, gemini_model |-> TRUE,
       outcomes |-> <<Returned("a cat"), Returned("a cat"), Returned("a cat")>>] :
        name \in SharedNames, i \in Images }

\* a text PDF of one page
SharedPdfFiles ==
    { [kind |-> "pdf", filename |-> name, size |-> 1024, loads |-> TRUE,
       pages |-> <<Rep("A", 300)>>, groq_vision_client |-> FALSE, ocr |-> Raised("")] :
        name \in SharedNames }

\* chat requests with exactly one of the document flags set
DocumentRequests ==
    { req \in AllRequests :
        req.message = "who?" /\ ~req.use_sql /\ Cardinality(FlagsSet(req)) = 1 }

DocumentOracles == { [DefaultOracle EXCEPT !.query_raises = qr] : qr \in BOOLEAN }

InitShared ==
    /\ InitEmptyMemory
    /\ collections \in {EmptyCollections, SeededCollections}
    /\ uuidCount = 0
    /\ storeLog = <<>>
    /\ db = NoDatabase
    /\ InitIdleChat
    /\ InitIdleSql

SharedUploadVideo ==
    /\ uuidCount < MaxSharedIds
    /\ \E file \in MediaFiles("video"), o \in StoreOracles : upload_video(file, o)

SharedUploadAudio ==
    /\ uuidCount < MaxSharedIds
    /\ \E file \in MediaFiles("audio"), o \in StoreOracles : upload_audio(file, o)

SharedUploadImage ==
    /\ uuidCount < MaxSharedIds
    /\ \E file \in SharedImageFiles, o \in StoreOracles : upload_image(file, o)

SharedUploadPdf ==
    /\ uuidCount < MaxSharedIds
    /\ \E file \in SharedPdfFiles, o \in StoreOracles : upload_pdf(file, o)

DocumentChat ==
    /\ chats < MaxSharedChats
    /\ \E req \in DocumentRequests, o \in DocumentOracles : chat(req, o)

NextShared ==
    \/ SharedUploadVideo
    \/ SharedUploadAudio
    \/ SharedUploadImage
    \/ SharedUploadPdf
    \/ DocumentChat

SpecShared == InitShared /\ [][NextShared]_vars

\* the mode of a chat request whose use_sql flag is not set: the first of
\* the flags in the order chat tests them
ModeOf(req) ==
    IF req.use_video THEN "video"
    ELSE IF req.use_audio THEN "audio"
    ELSE IF req.use_pdf THEN "pdf"
    ELSE "image"

NewChunks(before, after) == { k \in 1..Len(after) : k > Len(before) }

\* an upload of modality m left the other collections as they were, added
\* to m's collection only chunks of its own file, and was answered as a
\* duplicate only if m's collection held the file's name; when the lookup
\* answered and m's collection did not hold the name, chunks were added
UploadIsolated(m, before, after, file, out) ==
    /\ \A x \in Modalities \ {m} : after[x] = before[x]
    /\ Len(after[m]) >= Len(before[m])
    /\ SubSeq(after[m], 1, Len(before[m])) = before[m]
    /\ \A k \in NewChunks(before[m], after[m]) : after[m][k].source = file.filename
    /\ ~out.raised =>
          /\ out.value.duplicate => GetBySource(before[m], file.filename) # {}
          /\ GetBySource(before[m], file.filename) = {} =>
                 (~out.value.duplicate /\ NewChunks(before[m], after[m]) # {})

\* a chat in mode m left the collections as they were and retrieved from
\* m's collection only
ChatIsolated(m, before, after, log) ==
    /\ after = before
    /\ \A i \in 1..Len(log) :
          log[i].op = "retrieve_context" =>
              /\ log[i].arg = m
              /\ log[i].ret \in { retrieve_context(before[m], 5, qr) : qr \in BOOLEAN }
    /\ \E i \in 1..Len(log) : log[i].op = "retrieve_context"

\* C40: each modality's collection is isolated: an upload of modality M adds
\* chunks only to M's collection and checks duplicates only in M's
\* collection (the same source name in another modality's collection does
\* not make it a duplicate), and a chat in mode M retrieves only from M's
\* collection
C40_CollectionsIsolated ==
    [][IF chats' # chats
       THEN ChatIsolated(ModeOf(request'), collections, collections', calls')
       ELSE upload'.kind \in Modalities =>
                UploadIsolated(upload'.kind, collections, collections', upload',
                               uploadOut')]_vars

\* a PDF named like a file the video collection holds was stored as new,
\* and a chat in PDF mode then retrieved the PDF's text and nothing of the
\* video's
C40_Witness ==
    /\ GetBySource(collections["video"], "doc.pdf") # {}
    /\ GetBySource(collections["pdf"], "doc.pdf") # {}
    /\ upload.kind = "pdf" /\ upload.filename = "doc.pdf"
    /\ ~uploadOut.raised /\ ~uploadOut.value.duplicate
    /\ request.use_pdf
    /\ \E i \in CallsOf("retrieve_context") :
          calls[i].ret = "about pdf\n\n" \o Rep("A", 300)

====
